---- MODULE Spec2Model ----
(***************************************************************************)
(* Model of the employee-management service: the spreadsheet ingestion     *)
(* pipeline (ExcelService.ProcessExcelFile and the repository batch        *)
(* insert), and the in-memory async job tracker                            *)
(* (StartAsyncExcelProcessing / processExcelAsync / updateJobStatus /      *)
(* GetJobStatus).                                                          *)
(*                                                                         *)
(* Go strings are modelled as sequences of one-character strings so that   *)
(* strings.ToLower, strings.TrimSpace, strings.HasSuffix and the length    *)
(* rules of the validator are computed, not assumed.                       *)
(***************************************************************************)
EXTENDS Integers, Sequences, FiniteSets, TLC

(***************************************************************************)
(* Bounds of the model                                                     *)
(***************************************************************************)
\* number of async jobs that may be submitted in one behaviour
MaxJobs == 2
\* storage calls 1..MaxFailAt of a batch may be the one that fails
MaxFailAt == 2
\* number of async jobs in the behaviours checked for liveness
MaxFairJobs == 1

(***************************************************************************)
(* Program constants                                                       *)
(***************************************************************************)
MaxFileSize == 10485760
\* a cap of eleven entries instead of ten
maxDuplicatesToShow_OffByOne == 10 + 1
maxDuplicatesToShow == 10

(***************************************************************************)
(* String literals                                                         *)
(***************************************************************************)
h_first_name == <<"f", "i", "r", "s", "t", "_", "n", "a", "m", "e">>
h_last_name == <<"l", "a", "s", "t", "_", "n", "a", "m", "e">>
h_email == <<"e", "m", "a", "i", "l">>
h_web == <<"w", "e", "b">>
n_data_xlsx == <<"d", ".", "x", "l", "s", "x">>
raw_EMAIL == <<"E", "M", "A", "I", "L", " ">>
raw_notes == <<"n", "o", "t", "e", "s">>
v_Ann == <<"A", "n", "n">>
v_Lee == <<"L", "e", "e">>
v_Bo == <<"B", "o">>
v_Cy == <<"C", "y">>
v_Ng == <<"N", "g">>
v_A == <<"A">>
e_ann == <<"a", "n", "n", "@", "x", ".", "c", "o">>
e_bo == <<"b", "o", "@", "x", ".", "c", "o">>
e_bad == <<"a", "n", "n", ".", "x", ".", "c", "o">>

(***************************************************************************)
(* strings package                                                         *)
(***************************************************************************)
UpperChars == <<"A", "B", "C", "D", "E", "F", "G", "H", "I", "J", "K", "L", "M",
                "N", "O", "P", "Q", "R", "S", "T", "U", "V", "W", "X", "Y", "Z">>
LowerChars == <<"a", "b", "c", "d", "e", "f", "g", "h", "i", "j", "k", "l", "m",
                "n", "o", "p", "q", "r", "s", "t", "u", "v", "w", "x", "y", "z">>

ToLowerChar(c) ==
    IF \E i \in 1..Len(UpperChars) : UpperChars[i] = c
    THEN LowerChars[CHOOSE i \in 1..Len(UpperChars) : UpperChars[i] = c]
    ELSE c

\* strings.ToLower
ToLower(s) == [i \in 1..Len(s) |-> ToLowerChar(s[i])]

\* strings.TrimSpace
TrimSpace(s) ==
    LET keep == {i \in 1..Len(s) : s[i] \notin {" ", "\t", "\n", "\r"}}
    IN  IF keep = {} THEN <<>>
        ELSE LET lo == CHOOSE i \in keep : \A k \in keep : i <= k
                 hi == CHOOSE i \in keep : \A k \in keep : i >= k
             IN  SubSeq(s, lo, hi)

\* strings.HasSuffix
HasSuffix(s, suffix) ==
    /\ Len(s) >= Len(suffix)
    /\ SubSeq(s, Len(s) - Len(suffix) + 1, Len(s)) = suffix

(***************************************************************************)
(* Errors: a Go error is the sequence of the parts of its message, the     *)
(* outermost wrapper first (fmt.Errorf("...: %w", err)); nil is <<>>.      *)
(***************************************************************************)
NoErr == <<>>
Wrap(prefix, err) == <<prefix>> \o err
Nil == [nil |-> TRUE]

(***************************************************************************)
(* models.Employee and the validator rules of its struct tags              *)
(***************************************************************************)
EmptyEmployee ==
    [ID |-> 0, FirstName |-> <<>>, LastName |-> <<>>, CompanyName |-> <<>>,
     Address |-> <<>>, City |-> <<>>, County |-> <<>>, Postal |-> <<>>,
     Phone |-> <<>>, Email |-> <<>>, Web |-> <<>>]

\* the `validate:"..."` tags, in struct field order
EmployeeRules ==
    << [Field |-> "FirstName",   tags |-> << <<"required", 0>>, <<"min", 2>>, <<"max", 50>> >>],
       [Field |-> "LastName",    tags |-> << <<"required", 0>>, <<"min", 2>>, <<"max", 50>> >>],
       [Field |-> "CompanyName", tags |-> << <<"max", 100>> >>],
       [Field |-> "Address",     tags |-> << <<"max", 255>> >>],
       [Field |-> "City",        tags |-> << <<"max", 50>> >>],
       [Field |-> "County",      tags |-> << <<"max", 50>> >>],
       [Field |-> "Postal",      tags |-> << <<"max", 20>> >>],
       [Field |-> "Phone",       tags |-> << <<"max", 20>> >>],
       [Field |-> "Email",       tags |-> << <<"required", 0>>, <<"email", 0>>, <<"max", 255>> >>],
       [Field |-> "Web",         tags |-> << <<"omitempty", 0>>, <<"url", 0>> >>] >>

\* validator tag `email`: one "@", a non-empty local part, a dotted domain
IsEmail(s) ==
    LET ats == {i \in 1..Len(s) : s[i] = "@"}
    IN  /\ Cardinality(ats) = 1
        /\ \A i \in 1..Len(s) : s[i] \notin {" ", "\t", "\n", "\r"}
        /\ LET at     == CHOOSE i \in ats : TRUE
               local  == SubSeq(s, 1, at - 1)
               domain == SubSeq(s, at + 1, Len(s))
           IN  /\ Len(local) >= 1
               /\ local[1] # "." /\ local[Len(local)] # "."
               /\ Len(domain) >= 3
               /\ domain[1] # "."
               /\ \E i \in 2..(Len(domain) - 1) : domain[i] = "."
               /\ \A i \in 1..(Len(domain) - 1) : ~(domain[i] = "." /\ domain[i + 1] = ".")

\* validator tag `url`: a letters-only scheme, ":", and something after it
IsURL(s) ==
    \E i \in 2..(Len(s) - 1) :
        /\ s[i] = ":"
        /\ \A k \in 1..(i - 1) : ToLowerChar(s[k]) \in {LowerChars[n] : n \in 1..Len(LowerChars)}

\* tags where `max` rejects a value of exactly the maximal length
TagFails_StrictMax(tag, v) ==
    CASE tag[1] = "required" -> v = <<>>
      [] tag[1] = "min"      -> Len(v) < tag[2]
      [] tag[1] = "max"      -> Len(v) >= tag[2]
      [] tag[1] = "email"    -> ~IsEmail(v)
      [] tag[1] = "url"      -> ~IsURL(v)
      [] OTHER               -> FALSE

TagFails(tag, v) ==
    CASE tag[1] = "required" -> v = <<>>
      [] tag[1] = "min"      -> Len(v) < tag[2]
      [] tag[1] = "max"      -> Len(v) > tag[2]
      [] tag[1] = "email"    -> ~IsEmail(v)
      [] tag[1] = "url"      -> ~IsURL(v)
      [] OTHER               -> FALSE

\* the first failing tag of one field, <<>> when the field passes
RECURSIVE FirstFailingTag(_, _, _)
FirstFailingTag(tags, k, v) ==
    IF k > Len(tags) THEN <<>>
    ELSE IF tags[k][1] = "omitempty" /\ v = <<>> THEN <<>>
    ELSE IF TagFails(tags[k], v) THEN tags[k]
    ELSE FirstFailingTag(tags, k + 1, v)

\* the FieldError of one field whose first failing tag is bad, if any
FieldErrorOf(rule, bad) ==
    IF bad = <<>> THEN <<>>
    ELSE <<[Field |-> rule.Field, Tag |-> bad[1], Param |-> bad[2]]>>

\* validate.Struct: one FieldError per failing field, in field order
RECURSIVE ValidateStruct(_, _)
ValidateStruct(employee, k) ==
    IF k > Len(EmployeeRules) THEN <<>>
    ELSE FieldErrorOf(EmployeeRules[k],
                      FirstFailingTag(EmployeeRules[k].tags, 1,
                                      employee[EmployeeRules[k].Field]))
         \o ValidateStruct(employee, k + 1)

getValidationMessage(fe) ==
    CASE fe.Tag = "required" -> <<fe.Field, "is required">>
      [] fe.Tag = "email"    -> <<"Invalid email format">>
      [] fe.Tag = "min"      -> <<fe.Field, "must be at least", fe.Param, "characters">>
      [] fe.Tag = "max"      -> <<fe.Field, "must not exceed", fe.Param, "characters">>
      [] fe.Tag = "url"      -> <<"Invalid URL format">>
      [] OTHER               -> <<fe.Field, "is invalid">>

\* EmployeeService.ValidateEmployeeData
ValidateEmployeeData(employee) ==
    LET validationErrors(errs) ==
            [i \in 1..Len(errs) |->
                [Field |-> errs[i].Field, Message |-> getValidationMessage(errs[i])]]
    IN  validationErrors(ValidateStruct(employee, 1))

(***************************************************************************)
(* Uploaded files: a multipart.FileHeader with the workbook it holds.      *)
(* Content.kind is "unreadable" (Open/ReadAll fails), "malformed"          *)
(* (excelize.OpenReader fails), "nosheet" (no first sheet) or "rows" (the  *)
(* rows GetRows returns for the first sheet).                              *)
(***************************************************************************)
\* ExcelService.validateExcelFile
validateExcelFile(file) ==
    IF file.Size > MaxFileSize
    THEN <<"file size exceeds maximum allowed size", file.Size, MaxFileSize>>
    ELSE IF /\ ~HasSuffix(ToLower(file.Filename), <<".", "x", "l", "s", "x">>)
            /\ ~HasSuffix(ToLower(file.Filename), <<".", "x", "l", "s">>)
    THEN <<"invalid file format. Only .xlsx and .xls files are supported">>
    ELSE NoErr

expectedHeaders ==
    <<h_first_name, h_last_name,
      <<"c", "o", "m", "p", "a", "n", "y", "_", "n", "a", "m", "e">>,
      <<"a", "d", "d", "r", "e", "s", "s">>, <<"c", "i", "t", "y">>,
      <<"c", "o", "u", "n", "t", "y">>, <<"p", "o", "s", "t", "a", "l">>,
      <<"p", "h", "o", "n", "e">>, h_email, h_web>>

requiredHeaders == {h_first_name, h_last_name, h_email}

\* validateAndMapHeaders that reads the required columns at fixed positions
validateAndMapHeaders_Positional(headerRow) ==
    IF requiredHeaders \subseteq {TrimSpace(ToLower(headerRow[i])) : i \in 1..Len(headerRow)}
    THEN [headerMap |-> [k \in requiredHeaders |->
                            IF k = h_first_name THEN 0 ELSE IF k = h_last_name THEN 1 ELSE 2],
          err |-> NoErr]
    ELSE [headerMap |-> Nil, err |-> <<"required headers not found">>]

\* validateAndMapHeaders that returns at the first missing required header
validateAndMapHeaders_FirstMissing(headerRow) ==
    LET keys == {TrimSpace(ToLower(headerRow[i])) : i \in 1..Len(headerRow)}
        missing == SelectSeq(expectedHeaders,
                             LAMBDA h : h \notin keys /\ h \in requiredHeaders)
    IN  IF Len(missing) > 0
        THEN [headerMap |-> Nil,
              err |-> <<"required headers not found", <<missing[1]>>,
                        "Available headers", headerRow>>]
        ELSE [headerMap |-> [k \in keys |-> 0], err |-> NoErr]

\* ExcelService.validateAndMapHeaders: cleaned header -> 0-based column,
\* a later column with the same cleaned name overwrites an earlier one
validateAndMapHeaders(headerRow) ==
    LET clean(i) == TrimSpace(ToLower(headerRow[i]))
        keys     == {clean(i) : i \in 1..Len(headerRow)}
        headerMap == [k \in keys |->
                        (CHOOSE i \in 1..Len(headerRow) :
                            /\ clean(i) = k
                            /\ \A n \in 1..Len(headerRow) : clean(n) = k => n <= i) - 1]
        IsMissing(h) == h \notin keys /\ h \in requiredHeaders
        result(missingHeaders) ==
            IF Len(missingHeaders) > 0
            THEN [headerMap |-> Nil,
                  err |-> <<"required headers not found", missingHeaders,
                            "Available headers", headerRow>>]
            ELSE [headerMap |-> headerMap, err |-> NoErr]
    IN  result(SelectSeq(expectedHeaders, IsMissing))

\* the getCellValue closure of parseEmployeeFromRow
getCellValue(row, headerMap, columnName) ==
    IF columnName \in DOMAIN headerMap /\ headerMap[columnName] < Len(row)
    THEN TrimSpace(row[headerMap[columnName] + 1])
    ELSE <<>>

\* the employee := &models.Employee{...} literal of parseEmployeeFromRow
mapRow(row, headerMap) ==
            [ID          |-> 0,
             FirstName   |-> getCellValue(row, headerMap, h_first_name),
             LastName    |-> getCellValue(row, headerMap, h_last_name),
             CompanyName |-> getCellValue(row, headerMap,
                                          <<"c", "o", "m", "p", "a", "n", "y", "_",
                                            "n", "a", "m", "e">>),
             Address     |-> getCellValue(row, headerMap, <<"a", "d", "d", "r", "e", "s", "s">>),
             City        |-> getCellValue(row, headerMap, <<"c", "i", "t", "y">>),
             County      |-> getCellValue(row, headerMap, <<"c", "o", "u", "n", "t", "y">>),
             Postal      |-> getCellValue(row, headerMap, <<"p", "o", "s", "t", "a", "l">>),
             Phone       |-> getCellValue(row, headerMap, <<"p", "h", "o", "n", "e">>),
             Email       |-> getCellValue(row, headerMap, h_email),
             Web         |-> getCellValue(row, headerMap, h_web)]

\* parseEmployeeFromRow that returns the employee whatever the validator says
parseEmployeeFromRow_IgnoreErrors(row, headerMap, rowNumber) ==
    [employee |-> mapRow(row, headerMap), errors |-> <<>>]

\* ExcelService.parseEmployeeFromRow
parseEmployeeFromRow(row, headerMap, rowNumber) ==
    LET rowErrors(fieldErrors) ==
            [i \in 1..Len(fieldErrors) |->
                [Field   |-> <<"Row", rowNumber, "-", fieldErrors[i].Field>>,
                 Message |-> fieldErrors[i].Message]]
        result(employee, validationErrors) ==
            IF Len(validationErrors) > 0
            THEN [employee |-> Nil, errors |-> validationErrors]
            ELSE [employee |-> employee, errors |-> <<>>]
    IN  result(mapRow(row, headerMap),
               rowErrors(ValidateEmployeeData(mapRow(row, headerMap))))

\* isRowEmpty that finds no row empty
isRowEmpty_Never(row) == FALSE

\* ExcelService.isRowEmpty
isRowEmpty(row) == \A i \in 1..Len(row) : TrimSpace(row[i]) = <<>>

\* the body of the data-row loop after parseEmployeeFromRow returned r:
\* the row's errors are appended, or else its employee
appendRow(acc, r) ==
    IF Len(r.errors) > 0
    THEN [acc EXCEPT !.validationErrors = @ \o r.errors]
    ELSE [acc EXCEPT !.employees = Append(@, r.employee)]

\* the data-row loop of parseExcelContent, rowIndex is 0-based as in the code;
\* acc holds the slices employees and validationErrors
RECURSIVE parseRows(_, _, _, _)
parseRows(rows, headerMap, rowIndex, acc) ==
    IF rowIndex >= Len(rows)
    THEN acc
    ELSE IF isRowEmpty(rows[rowIndex + 1])
    THEN parseRows(rows, headerMap, rowIndex + 1, acc)
    ELSE parseRows(rows, headerMap, rowIndex + 1,
                   appendRow(acc, parseEmployeeFromRow(rows[rowIndex + 1], headerMap,
                                                       rowIndex + 1)))

\* ExcelService.parseExcelContent
parseExcelContent(content) ==
    LET fail(e) == [employees |-> <<>>, validationErrors |-> <<>>, err |-> e]
    IN  IF content.kind = "malformed"
        THEN fail(<<"failed to open Excel file">>)
        ELSE IF content.kind = "nosheet"
        THEN fail(<<"Excel file has no sheets">>)
        ELSE IF Len(content.rows) <= 1
        THEN fail(<<"Excel file appears to be empty or has no data rows">>)
        ELSE LET done(p) == [employees |-> p.employees,
                                 validationErrors |-> p.validationErrors,
                                 err |-> NoErr]
                 withHeaders(hm) ==
                     IF hm.err # NoErr
                     THEN fail(Wrap("header validation failed", hm.err))
                     ELSE done(parseRows(content.rows, hm.headerMap, 1,
                                         [employees |-> <<>>, validationErrors |-> <<>>]))
             IN  withHeaders(validateAndMapHeaders(content.rows[1]))

(***************************************************************************)
(* Inputs                                                                  *)
(***************************************************************************)
Rows(rs) == [kind |-> "rows", rows |-> rs]
hdr3     == <<h_first_name, h_last_name, h_email>>
hdrMixed == <<raw_EMAIL, raw_notes,
              <<" ", "F", "i", "r", "s", "t", "_", "N", "a", "m", "e">>, h_last_name>>
rowAnn   == <<v_Ann, v_Lee, e_ann>>
rowAnn2  == <<v_Bo, v_Ng, e_ann>>
rowBo    == <<v_Bo, v_Ng, e_bo>>
rowBlank == <<<<" ", " ">>, <<>>, <<" ", " ">>>>

F_ann       == [Filename |-> n_data_xlsx, Size |-> MaxFileSize, Content |-> Rows(<<hdr3, rowAnn>>)]
F_annbo     == [Filename |-> <<"d", ".", "X", "L", "S">>, Size |-> 100,
                Content |-> Rows(<<hdr3, rowAnn, rowBo>>)]
F_mixed     == [Filename |-> n_data_xlsx, Size |-> 100,
                Content |-> Rows(<<hdrMixed,
                    <<<<" ", "a", "n", "n", "@", "x", ".", "c", "o">>, v_A,
                      <<" ", "A", "n", "n", " ">>, v_Lee>>,
                                   rowBlank, <<e_bo, v_A, <<>>, v_Bo>>,
                                   <<e_bad, v_A, v_A, v_Ng>> >>)]
\* F_annbo with blank rows before, between and after its data rows
F_annbo_blanks == [Filename |-> <<"d", ".", "X", "L", "S">>, Size |-> 100,
                   Content |-> Rows(<<hdr3, rowBlank, rowAnn, <<>>, rowBlank, rowBo,
                                      rowBlank>>)]
\* F_mixed without its blank row
F_mixed_noblank == [Filename |-> n_data_xlsx, Size |-> 100,
                    Content |-> Rows(<<hdrMixed,
                    <<<<" ", "a", "n", "n", "@", "x", ".", "c", "o">>, v_A,
                      <<" ", "A", "n", "n", " ">>, v_Lee>>,
                                       <<e_bo, v_A, <<>>, v_Bo>>,
                                       <<e_bad, v_A, v_A, v_Ng>> >>)]
\* two rows with new emails, then eleven rows that repeat them in turn
F_many      == [Filename |-> n_data_xlsx, Size |-> 100,
                Content |-> Rows(<<hdr3, rowAnn, rowBo,
                                   rowBo, rowAnn2, rowBo, rowAnn2, rowBo, rowAnn2,
                                   rowBo, rowAnn2, rowBo, rowAnn2, rowBo>>)]

\* files offered to the async submit
AsyncFiles ==
    {F_ann,
     \* a name that ends in .csv; a file over the size limit; a header row only
     [Filename |-> <<"d", ".", "c", "s", "v">>, Size |-> 100,
      Content |-> Rows(<<hdr3, rowAnn>>)],
     [Filename |-> n_data_xlsx, Size |-> MaxFileSize + 1,
      Content |-> Rows(<<hdr3, rowAnn>>)],
     [Filename |-> <<"d", ".", "X", "L", "S">>, Size |-> 100,
      Content |-> Rows(<<hdr3>>)]}

\* files offered to the synchronous upload
Files ==
    AsyncFiles \cup
    {F_annbo, F_mixed, F_many, F_annbo_blanks, F_mixed_noblank,
     \* a name that ends neither in .xlsx nor in .xls
     [Filename |-> <<"d", ".", "x", "l", "s", "x", ".", "t">>, Size |-> 100,
      Content |-> Rows(<<hdr3, rowAnn>>)],
     \* content that does not open, has no rows iterator, has no sheet
     [Filename |-> n_data_xlsx, Size |-> 100,
      Content |-> [kind |-> "unreadable", rows |-> <<>>]],
     [Filename |-> n_data_xlsx, Size |-> 100,
      Content |-> [kind |-> "malformed", rows |-> <<>>]],
     [Filename |-> n_data_xlsx, Size |-> 100,
      Content |-> [kind |-> "nosheet", rows |-> <<>>]],
     \* no rows; a header row without the required columns
     [Filename |-> n_data_xlsx, Size |-> 100, Content |-> Rows(<<>>)],
     [Filename |-> n_data_xlsx, Size |-> 100,
      Content |-> Rows(<<<<h_first_name, raw_notes>>, rowAnn>>)],
     \* an email repeated in the file; a row without first name; an email
     \* of 256 characters
     [Filename |-> n_data_xlsx, Size |-> 100,
      Content |-> Rows(<<hdr3, rowAnn, rowAnn2,
                         <<v_Cy, v_Lee, <<"c", "y", "@", "x", ".", "c", "o">> >> >>)],
     [Filename |-> n_data_xlsx, Size |-> 100,
      Content |-> Rows(<<hdr3, <<<<>>, v_Bo, e_bo>> >>)],
     [Filename |-> n_data_xlsx, Size |-> 100,
      Content |-> Rows(<<hdr3, <<v_Ann, v_Lee, [i \in 1..256 |-> "a"]>> >>)]}

\* the files of the model, parsed once (parseExcelContent is a pure function
\* of the content, line 149 of ProcessExcelFile)
ParseMemo == [c \in {f.Content : f \in Files} |-> parseExcelContent(c)]
\* the files of the model, validated once (validateExcelFile is a pure
\* function of the file header)
ValidateMemo == [f \in Files |-> validateExcelFile(f)]

(***************************************************************************)
(* Storage: the employees table (a set of rows, ID is the primary key,     *)
(* email has a unique index that compares emails exactly) and its          *)
(* auto-increment counter.  Cache: one Redis keyspace.                     *)
(***************************************************************************)

Emails(tbl) == {e.Email : e \in tbl}

\* the loop of CreateEmployeesInBatchWithResult without `skipped++`
RECURSIVE createLoop_NoSkipCount(_, _, _, _, _)
createLoop_NoSkipCount(employees, k, failAt, tbl, acc) ==
    IF k > Len(employees)
    THEN [acc EXCEPT !.table = tbl]
    ELSE IF k = failAt
    THEN [acc EXCEPT !.table = tbl, !.err = <<"storage failure">>]
    ELSE IF employees[k].Email \in Emails(tbl)
    THEN createLoop_NoSkipCount(employees, k + 1, failAt, tbl,
                    [acc EXCEPT !.duplicateEmails = Append(@, employees[k].Email)])
    ELSE createLoop_NoSkipCount(employees, k + 1, failAt,
                    tbl \cup {[employees[k] EXCEPT !.ID = acc.autoInc]},
                    [acc EXCEPT !.inserted = @ + 1, !.autoInc = @ + 1])

\* the body of the transaction of CreateEmployeesInBatchWithResult: the
\* k-th tx.Create; call number failAt returns a non-duplicate error
RECURSIVE createLoop(_, _, _, _, _)
createLoop(employees, k, failAt, tbl, acc) ==
    IF k > Len(employees)
    THEN [acc EXCEPT !.table = tbl]
    ELSE IF k = failAt
    THEN [acc EXCEPT !.table = tbl, !.err = <<"storage failure">>]
    ELSE IF employees[k].Email \in Emails(tbl)
    THEN createLoop(employees, k + 1, failAt, tbl,
                    [acc EXCEPT !.skipped = @ + 1,
                                !.duplicateEmails = Append(@, employees[k].Email)])
    ELSE createLoop(employees, k + 1, failAt,
                    tbl \cup {[employees[k] EXCEPT !.ID = acc.autoInc]},
                    [acc EXCEPT !.inserted = @ + 1, !.autoInc = @ + 1])

\* EmployeeRepository.CreateEmployeesInBatchWithResult; db.Transaction rolls
\* the table back when the function returns an error
CreateEmployeesInBatchWithResult(employees, tbl, ai, failAt) ==
    LET zero == [inserted |-> 0, skipped |-> 0, duplicateEmails |-> <<>>,
                 err |-> NoErr, table |-> tbl, autoInc |-> ai]
    IN  IF Len(employees) = 0 THEN zero
        ELSE LET endTransaction(r) ==
                     IF r.err # NoErr
                     THEN [r EXCEPT !.table = tbl, !.autoInc = ai]
                     ELSE r
             IN  endTransaction(createLoop(employees, 1, failAt, tbl, zero))

\* RedisClient.InvalidateEmployeeListCache: KEYS employee_list:* then DEL;
\* when the call fails nothing is deleted
InvalidateEmployeeListCache(c, cacheFail) ==
    IF cacheFail THEN c
    ELSE [k \in {x \in DOMAIN c : x.ns # "employee_list"} |-> c[k]]

\* the `if len(employees) > 0` branch of ProcessExcelFile after the batch
\* insert returned r
summarize(response, r, c, cacheFail) ==
    LET duplicateEmails == r.duplicateEmails
        shown == IF Len(duplicateEmails) > maxDuplicatesToShow
                 THEN SubSeq(duplicateEmails, 1, maxDuplicatesToShow)
                 ELSE duplicateEmails
        duplicateEmailsText ==
            IF Len(duplicateEmails) > 0
            THEN IF Len(duplicateEmails) > maxDuplicatesToShow
                 THEN <<"examples", shown, "and more",
                        Len(duplicateEmails) - maxDuplicatesToShow>>
                 ELSE <<shown>>
            ELSE <<>>
        resp ==
            IF r.err # NoErr
            THEN [response EXCEPT
                    !.Message = <<"Processed records, but failed to save to database",
                                  response.TotalRecords, r.err>>]
            ELSE [response EXCEPT
                    !.InsertedRecords = r.inserted,
                    !.SkippedRecords  = r.skipped,
                    !.ValidRecords    = r.inserted,
                    !.DuplicateEmails = shown,
                    !.Message =
                        IF r.skipped > 0
                        THEN <<"Successfully processed records", response.TotalRecords,
                               "Inserted", r.inserted, "Skipped", r.skipped,
                               duplicateEmailsText, "Invalid", response.InvalidRecords>>
                        ELSE <<"Successfully processed records", response.TotalRecords,
                               "Inserted", r.inserted, "Invalid", response.InvalidRecords>>]
    IN  [resp |-> resp, err |-> NoErr, table |-> r.table, autoInc |-> r.autoInc,
         cache |-> InvalidateEmployeeListCache(c, cacheFail), dbErr |-> r.err]

\* ProcessExcelFile that invalidates the list cache before it parses the file
ProcessExcelFile_InvalidateFirst(file, tbl, ai, c, failAt, cacheFail) ==
    LET c2 == InvalidateEmployeeListCache(c, FALSE)
        fail(e) == [resp |-> Nil, err |-> e, table |-> tbl, autoInc |-> ai,
                    cache |-> c2, dbErr |-> NoErr]
    IN  IF ValidateMemo[file] # NoErr
        THEN fail(Wrap("file validation failed", ValidateMemo[file]))
        ELSE IF file.Content.kind = "unreadable"
        THEN fail(<<"failed to open uploaded file">>)
        ELSE IF ParseMemo[file.Content].err # NoErr
        THEN fail(Wrap("failed to parse Excel file", ParseMemo[file.Content].err))
        ELSE fail(<<"not reached by the checked property">>)

\* ExcelService.ProcessExcelFile on the table tbl / counter ai / cache c.
\* resp is Nil when an error is returned; dbErr is the error the batch
\* insert returned (the code only logs it).
ProcessExcelFile(file, tbl, ai, c, failAt, cacheFail) ==
    LET fail(e) == [resp |-> Nil, err |-> e, table |-> tbl, autoInc |-> ai,
                    cache |-> c, dbErr |-> NoErr]
        verr == ValidateMemo[file]
    IN  IF verr # NoErr
        THEN fail(Wrap("file validation failed", verr))
        ELSE IF file.Content.kind = "unreadable"
        THEN fail(<<"failed to open uploaded file">>)
        ELSE LET newResponse(p) ==
                     [Message         |-> <<>>,
                      TotalRecords    |-> Len(p.employees) + Len(p.validationErrors),
                      ValidRecords    |-> Len(p.employees),
                      InvalidRecords  |-> Len(p.validationErrors),
                      InsertedRecords |-> 0,
                      SkippedRecords  |-> 0,
                      DuplicateEmails |-> <<>>]
                 parsed(p) ==
                     IF p.err # NoErr
                     THEN fail(Wrap("failed to parse Excel file", p.err))
                     ELSE IF Len(p.employees) > 0
                     THEN summarize(newResponse(p),
                                    CreateEmployeesInBatchWithResult(p.employees, tbl,
                                                                     ai, failAt),
                                    c, cacheFail)
                     ELSE [resp |-> [newResponse(p) EXCEPT !.Message =
                               <<"No valid employee records found in the Excel file">>],
                           err |-> NoErr, table |-> tbl, autoInc |-> ai,
                           cache |-> c, dbErr |-> NoErr]
             IN  parsed(ParseMemo[file.Content])

(***************************************************************************)
(* The environment: which storage call of a batch fails, if any, and       *)
(* whether the cache call fails.  A call that is never made cannot fail.   *)
(***************************************************************************)
StorageCalls(file) ==
    LET calls(p) == IF p.err # NoErr THEN 0 ELSE Len(p.employees)
    IN  IF ValidateMemo[file] # NoErr \/ file.Content.kind = "unreadable"
        THEN 0
        ELSE calls(ParseMemo[file.Content])

FailChoices(file) == {k \in 0..MaxFailAt : k <= StorageCalls(file)}
CacheFailChoices(file) == IF StorageCalls(file) > 0 THEN BOOLEAN ELSE {FALSE}

\* the row of the employees table when the process starts with one
storedAnn == [EmptyEmployee EXCEPT !.ID = 1, !.FirstName = v_Ann,
                                   !.LastName = v_Ng, !.Email = e_ann]

JobStatusPending   == "pending"
JobStatusRunning   == "running"
JobStatusCompleted == "completed"
JobStatusFailed    == "failed"

Unlocked == 0
NoJob    == 0

(***************************************************************************)
(* State                                                                   *)
(***************************************************************************)
VARIABLES
    table,      \* rows of the employees table
    autoInc,    \* next value of the auto-increment primary key
    cache,      \* Redis: key -> value
    jobs,       \* ExcelService.jobs: job id -> JobResult
    mu,         \* ExcelService.mu: Unlocked, or the job whose task holds the write lock
    task,       \* the goroutine of each job: position and locals of processExcelAsync
    returned,   \* job ids that StartAsyncExcelProcessing has returned
    out,        \* what the last call of the service returned to its caller
    seen        \* the fields the caller of the last GetJobStatus has read so far

vars == <<table, autoInc, cache, jobs, mu, task, returned, out, seen>>

storeVars == <<table, autoInc, cache>>

\* no call of the service has returned yet
NoCall == [op |-> "none"]

Init ==
    /\ table \in {{}, {storedAnn}}
    /\ autoInc = Cardinality(table) + 1
    /\ cache = [k \in {} |-> Nil]
    /\ jobs = <<>>
    /\ mu = Unlocked
    /\ task = <<>>
    /\ returned = {}
    /\ out = NoCall
    /\ seen = [f \in {} |-> Nil]

(***************************************************************************)
(* Async job tracker                                                       *)
(***************************************************************************)
\* processExcelAsync without its first updateJobStatus call
processExcelAsync_Start_SkipRunning(file) ==
    [pc |-> "process", upd |-> "none", file |-> file,
     status |-> JobStatusRunning, result |-> Nil, errorMsg |-> <<>>,
     dbErr |-> NoErr, in |-> Nil]

\* the goroutine `go s.processExcelAsync(jobID, file)` at its first statement,
\* updateJobStatus(jobID, JobStatusRunning, nil, "")
processExcelAsync_Start(file) ==
    [pc |-> "setRunning", upd |-> "none", file |-> file,
     status |-> JobStatusRunning, result |-> Nil, errorMsg |-> <<>>,
     dbErr |-> NoErr, in |-> Nil]

\* StartAsyncExcelProcessing that registers the job before it validates the file
StartAsyncExcelProcessing_RegisterFirst(file) ==
    /\ Len(jobs) < MaxJobs
    /\ mu = Unlocked
    /\ jobs' = Append(jobs, [ID |-> Len(jobs) + 1, Status |-> JobStatusPending,
                             Result |-> Nil, Error |-> <<>>])
    /\ UNCHANGED mu
    /\ IF ValidateMemo[file] # NoErr
       THEN /\ out' = [op |-> "submit", file |-> file, jobID |-> NoJob,
                       err |-> Wrap("file validation failed", ValidateMemo[file])]
            /\ task' = Append(task, [pc |-> "done", upd |-> "none", file |-> file,
                                     status |-> JobStatusPending, result |-> Nil,
                                     errorMsg |-> <<>>, dbErr |-> NoErr, in |-> Nil])
            /\ UNCHANGED returned
       ELSE /\ out' = [op |-> "submit", file |-> file, jobID |-> Len(jobs) + 1,
                       err |-> NoErr]
            /\ task' = Append(task, [pc |-> "setRunning", upd |-> "none", file |-> file,
                                     status |-> JobStatusRunning, result |-> Nil,
                                     errorMsg |-> <<>>, dbErr |-> NoErr, in |-> Nil])
            /\ returned' = returned \cup {Len(jobs) + 1}

\* ExcelService.StartAsyncExcelProcessing(file).  uuid.New() is a fresh id:
\* the next unused number.
StartAsyncExcelProcessing(file) ==
    LET verr == ValidateMemo[file]
    IN  IF verr # NoErr
        THEN /\ out' = [op |-> "submit", file |-> file, jobID |-> NoJob,
                        err |-> Wrap("file validation failed", verr)]
             /\ UNCHANGED <<jobs, mu, task, returned>>
        ELSE /\ Len(jobs) < MaxJobs
             /\ mu = Unlocked
             /\ LET jobID == Len(jobs) + 1
                IN  /\ jobs' = Append(jobs, [ID |-> jobID, Status |-> JobStatusPending,
                                             Result |-> Nil, Error |-> <<>>])
                    /\ task' = Append(task, processExcelAsync_Start(file))
                    /\ returned' = returned \cup {jobID}
                    /\ out' = [op |-> "submit", file |-> file, jobID |-> jobID,
                               err |-> NoErr]
             /\ UNCHANGED mu

Submit ==
    /\ \E file \in AsyncFiles : StartAsyncExcelProcessing(file)
    /\ UNCHANGED <<storeVars, seen>>

\* ExcelService.updateJobStatus, called by the task of job j with the
\* arguments in task[j]: s.mu.Lock() and `job.Status = status`
updateJobStatus_Status(j) ==
    /\ task[j].pc \in {"setRunning", "setFinal"}
    /\ task[j].upd = "none"
    /\ mu = Unlocked
    /\ mu' = j
    /\ IF j \in DOMAIN jobs
       THEN jobs' = [jobs EXCEPT ![j].Status = task[j].status]
       ELSE UNCHANGED jobs
    /\ task' = [task EXCEPT ![j].upd = "wroteStatus"]
    /\ UNCHANGED storeVars

\* `job.Result = result`
updateJobStatus_Result(j) ==
    /\ task[j].upd = "wroteStatus"
    /\ IF j \in DOMAIN jobs
       THEN jobs' = [jobs EXCEPT ![j].Result = task[j].result]
       ELSE UNCHANGED jobs
    /\ task' = [task EXCEPT ![j].upd = "wroteResult"]
    /\ UNCHANGED <<mu, storeVars>>

\* updateJobStatus whose first call returns without s.mu.Unlock()
updateJobStatus_Error_KeepsLock(j) ==
    /\ task[j].upd = "wroteResult"
    /\ IF j \in DOMAIN jobs
       THEN jobs' = [jobs EXCEPT ![j].Error = task[j].errorMsg]
       ELSE UNCHANGED jobs
    /\ mu' = IF task[j].pc = "setRunning" THEN j ELSE Unlocked
    /\ task' = [task EXCEPT ![j].upd = "none",
                            ![j].pc = IF task[j].pc = "setRunning"
                                      THEN "process" ELSE "done"]
    /\ UNCHANGED storeVars

\* `job.Error = errorMsg` and the deferred s.mu.Unlock(); the caller goes on
updateJobStatus_Error(j) ==
    /\ task[j].upd = "wroteResult"
    /\ IF j \in DOMAIN jobs
       THEN jobs' = [jobs EXCEPT ![j].Error = task[j].errorMsg]
       ELSE UNCHANGED jobs
    /\ mu' = Unlocked
    /\ task' = [task EXCEPT ![j].upd = "none",
                            ![j].pc = IF task[j].pc = "setRunning"
                                      THEN "process" ELSE "done"]
    /\ UNCHANGED storeVars

\* processExcelAsync without its `if err != nil` branch
finalUpdate_NoErrorBranch(r) ==
    [status |-> JobStatusCompleted, result |-> r.resp, errorMsg |-> <<>>]

\* the arguments of the last updateJobStatus call of processExcelAsync
finalUpdate(r) ==
    IF r.err # NoErr
    THEN [status |-> JobStatusFailed, result |-> Nil, errorMsg |-> r.err]
    ELSE [status |-> JobStatusCompleted, result |-> r.resp, errorMsg |-> <<>>]

\* processExcelAsync that returns on an error without the last update
processExcelAsync_Process_ReturnOnError(j) ==
    /\ task[j].pc = "process"
    /\ \E failAt \in FailChoices(task[j].file),
          cacheFail \in CacheFailChoices(task[j].file) :
         \E r \in {ProcessExcelFile(task[j].file, table, autoInc, cache, failAt, cacheFail)} :
             /\ table' = r.table
             /\ autoInc' = r.autoInc
             /\ cache' = r.cache
             /\ task' = [task EXCEPT ![j].pc = IF r.err # NoErr THEN "done" ELSE "setFinal",
                                     ![j].status = JobStatusCompleted,
                                     ![j].result = r.resp,
                                     ![j].errorMsg = <<>>,
                                     ![j].dbErr = r.dbErr,
                                     ![j].in = [table |-> table, autoInc |-> autoInc,
                                                failAt |-> failAt]]
    /\ UNCHANGED <<jobs, mu>>

\* processExcelAsync between its two updateJobStatus calls:
\* `result, err := s.ProcessExcelFile(file)` and the choice of the last update
processExcelAsync_Process(j) ==
    /\ task[j].pc = "process"
    /\ \E failAt \in FailChoices(task[j].file),
          cacheFail \in CacheFailChoices(task[j].file) :
         \E r \in {ProcessExcelFile(task[j].file, table, autoInc, cache, failAt, cacheFail)} :
           \E u \in {finalUpdate(r)} :
             /\ table' = r.table
             /\ autoInc' = r.autoInc
             /\ cache' = r.cache
             /\ task' = [task EXCEPT ![j].pc = "setFinal",
                                     ![j].status = u.status,
                                     ![j].result = u.result,
                                     ![j].errorMsg = u.errorMsg,
                                     ![j].dbErr = r.dbErr,
                                     ![j].in = [table |-> table, autoInc |-> autoInc,
                                                failAt |-> failAt]]
    /\ UNCHANGED <<jobs, mu>>

\* one step of the goroutine of job j
TaskStep(j) ==
    /\ j \in DOMAIN task
    /\ \/ updateJobStatus_Status(j)
       \/ updateJobStatus_Result(j)
       \/ updateJobStatus_Error(j)
       \/ processExcelAsync_Process(j)
    /\ UNCHANGED <<returned, out, seen>>

Task == \E j \in (1..MaxJobs) : TaskStep(j)

\* GetJobStatus that looks the id up in s.processResults, which nothing fills
GetJobStatus_WrongMap(jobID) ==
    [op |-> "poll", jobID |-> jobID, ptr |-> NoJob, err |-> <<"job not found">>]

\* ExcelService.GetJobStatus(jobID): under the read lock, the pointer stored
\* in the map (ptr) or the error; the lock is released on return
GetJobStatus(jobID) ==
    IF jobID \in DOMAIN jobs
    THEN [op |-> "poll", jobID |-> jobID, ptr |-> jobID, err |-> NoErr]
    ELSE [op |-> "poll", jobID |-> jobID, ptr |-> NoJob, err |-> <<"job not found">>]

Poll ==
    /\ mu = Unlocked
    /\ \E jobID \in (1..(MaxJobs + 1)) : out' = GetJobStatus(jobID)
    /\ seen' = [f \in {} |-> Nil]
    /\ UNCHANGED <<storeVars, jobs, mu, task, returned>>

\* the caller of GetJobStatus reads one more field of the JobResult through
\* the pointer it got; no lock is held
ReadField ==
    /\ out.op = "poll"
    /\ out.ptr # NoJob
    /\ \E f \in {"Status", "Result", "Error"} \ DOMAIN seen :
         seen' = (f :> jobs[out.ptr][f]) @@ seen
    /\ UNCHANGED <<storeVars, jobs, mu, task, returned, out>>

Next == Submit \/ Task \/ Poll

Spec == Init /\ [][Next]_vars

\* the same system with the callers of GetJobStatus reading the record
NextRace == Submit \/ Task \/ Poll \/ ReadField

RaceSpec == Init /\ [][NextRace]_vars

\* the Go scheduler runs every goroutine that can take a step
SubmitFair ==
    /\ \E file \in AsyncFiles :
         /\ ValidateMemo[file] = NoErr => Len(jobs) < MaxFairJobs
         /\ StartAsyncExcelProcessing(file)
    /\ UNCHANGED <<storeVars, seen>>

NextFair == SubmitFair \/ Task \/ Poll

FairSpec == Init /\ [][NextFair]_vars /\ \A j \in (1..MaxJobs) : WF_vars(TaskStep(j))

(***************************************************************************)
(* Synchronous upload and list read                                        *)
(***************************************************************************)
\* EmployeeHandler.UploadExcel -> ExcelService.ProcessExcelFile(file)
UploadExcel ==
    /\ \E file \in Files :
         \E failAt \in FailChoices(file), cacheFail \in CacheFailChoices(file) :
           \E r \in {ProcessExcelFile(file, table, autoInc, cache, failAt, cacheFail)} :
               /\ table' = r.table
               /\ autoInc' = r.autoInc
               /\ cache' = r.cache
               /\ out' = [op |-> "upload", file |-> file, failAt |-> failAt,
                          resp |-> r.resp, err |-> r.err, dbErr |-> r.dbErr]
    /\ UNCHANGED <<jobs, mu, task, returned, seen>>

\* ExcelService.ValidateExcelStructure(file): resp is Nil when an error is
\* returned
ValidateExcelStructure(file) ==
    LET fail(e) == [resp |-> Nil, err |-> e]
        checked(hm) ==
            IF hm.err # NoErr
            THEN fail(hm.err)
            ELSE LET dataRowCount(n) ==
                         [resp |-> [Message |-> <<"Excel validation successful", n>>,
                                    TotalRecords |-> n],
                          err |-> NoErr]
                 IN  dataRowCount(Cardinality({i \in 2..Len(file.Content.rows) :
                                                 ~isRowEmpty(file.Content.rows[i])}))
    IN  IF ValidateMemo[file] # NoErr
        THEN fail(ValidateMemo[file])
        ELSE IF file.Content.kind = "unreadable"
        THEN fail(<<"failed to open file">>)
        ELSE IF file.Content.kind = "malformed"
        THEN fail(<<"failed to parse Excel file">>)
        ELSE IF file.Content.kind = "nosheet"
        THEN fail(<<"Excel file has no sheets">>)
        ELSE IF Len(file.Content.rows) <= 1
        THEN [resp |-> [Message |-> <<"Excel file appears to be empty">>,
                        TotalRecords |-> 0],
              err |-> NoErr]
        ELSE checked(validateAndMapHeaders(file.Content.rows[1]))

\* the files of the model, structure-validated once (ValidateExcelStructure
\* is a pure function of the file)
StructureMemo == [f \in Files |-> ValidateExcelStructure(f)]

\* ValidateExcel that invalidates the cache as an upload does
ValidateExcel_DropsCache ==
    /\ \E file \in Files :
         out' = [op |-> "validate", file |-> file, resp |-> StructureMemo[file].resp,
                 err |-> StructureMemo[file].err]
    /\ cache' = [k \in {} |-> Nil]
    /\ UNCHANGED <<table, autoInc, jobs, mu, task, returned, seen>>

\* EmployeeHandler.ValidateExcel -> ExcelService.ValidateExcelStructure(file)
ValidateExcel ==
    /\ \E file \in Files :
         \E r \in {StructureMemo[file]} :
             out' = [op |-> "validate", file |-> file, resp |-> r.resp, err |-> r.err]
    /\ UNCHANGED <<table, autoInc, cache, jobs, mu, task, returned, seen>>

\* database.GenerateListCacheKey
GenerateListCacheKey(limit, offset, searchQuery) ==
    IF searchQuery # <<>>
    THEN <<"search", searchQuery, "limit", limit, "offset", offset>>
    ELSE <<"all", "limit", limit, "offset", offset>>

\* the key SetEmployeeList / GetEmployeeList use in Redis
ListKey(key) == [ns |-> "employee_list", key |-> key]

\* the rows of the table in primary-key order
RECURSIVE SortedByID(_)
SortedByID(tbl) ==
    IF tbl = {} THEN <<>>
    ELSE LET first == CHOOSE e \in tbl : \A x \in tbl : e.ID <= x.ID
         IN  <<first>> \o SortedByID(tbl \ {first})

\* EmployeeRepository.GetAllEmployees(limit, offset)
RepoGetAllEmployees(tbl, limit, offset) ==
    LET all == SortedByID(tbl)
        hi  == IF offset + limit < Len(all) THEN offset + limit ELSE Len(all)
    IN  [employees |-> SubSeq(all, offset + 1, hi), total |-> Cardinality(tbl)]

\* EmployeeService.GetAllEmployees(limit, offset): cache first, then the
\* table; getFail / setFail are failures of the two cache calls
GetAllEmployees ==
    /\ \E q \in {[limit |-> 10, offset |-> 0], [limit |-> 1, offset |-> 1]},
          getFail \in BOOLEAN, setFail \in BOOLEAN :
         LET cacheKey == ListKey(GenerateListCacheKey(q.limit, q.offset, <<>>))
         IN  IF ~getFail /\ cacheKey \in DOMAIN cache
             THEN /\ out' = [op |-> "list", employees |-> cache[cacheKey].Employees,
                             total |-> cache[cacheKey].Total, err |-> NoErr]
                  /\ UNCHANGED cache
             ELSE \E r \in {RepoGetAllEmployees(table, q.limit, q.offset)} :
                      /\ out' = [op |-> "list", employees |-> r.employees,
                                 total |-> r.total, err |-> NoErr]
                      /\ cache' = IF setFail THEN cache
                                  ELSE (cacheKey :> [Employees |-> r.employees,
                                                     Total |-> r.total]) @@ cache
    /\ UNCHANGED <<table, autoInc, jobs, mu, task, returned, seen>>

NextUpload == UploadExcel \/ ValidateExcel \/ GetAllEmployees

UploadSpec == Init /\ [][NextUpload]_vars

(***************************************************************************)
(* The parser on its own: header rows and sheets with permuted columns     *)
(***************************************************************************)
\* header cells: exact names, names in another case or with white space
\* around them, an optional column and an unknown column

MaxHeaderLen == 3

\* header rows of up to MaxHeaderLen cells
HeaderRows ==
    UNION {[1..n -> {h_first_name,
                     <<" ", "F", "i", "r", "s", "t", "_", "N", "a", "m", "e">>,
                     h_last_name, h_email, raw_EMAIL, h_web, raw_notes}] :
              n \in 0..MaxHeaderLen}

\* every header row mapped, computed once (validateAndMapHeaders is a pure
\* function of the header row)
HeaderMemo == [headerRow \in HeaderRows |-> validateAndMapHeaders(headerRow)]

\* ExcelService.validateAndMapHeaders(headerRow, expectedHeaders) on its own;
\* the function keeps no state, so each behaviour makes one call
MapHeaders ==
    /\ out = NoCall
    /\ \E headerRow \in HeaderRows :
         \E r \in {HeaderMemo[headerRow]} :
             out' = [op |-> "headers", headerRow |-> headerRow,
                     headerMap |-> r.headerMap, err |-> r.err]
    /\ UNCHANGED <<table, autoInc, cache, jobs, mu, task, returned, seen>>

\* the permutations of the columns 1..n
Perms(n) == {f \in [1..n -> 1..n] : \A a \in 1..n, b \in 1..n : f[a] = f[b] => a = b}

\* the sheet with its columns permuted, header and data cells together:
\* column i of each row is taken from column perm[i]; a cell the row does
\* not have is an empty cell
Permute(content, perm) ==
    [content EXCEPT !.rows =
        [r \in 1..Len(content.rows) |->
            [i \in DOMAIN perm |->
                IF perm[i] <= Len(content.rows[r]) THEN content.rows[r][perm[i]]
                ELSE <<>>]]]

\* sheets of three or four columns: valid rows, rows with errors, a blank
\* row, and rows shorter than the header
Sheets ==
    {Rows(<<hdr3, rowAnn, <<<<>>, v_Bo, e_bo>>, rowBlank, <<v_Cy, v_Lee>> >>),
     Rows(<<hdrMixed,
                    <<<<" ", "a", "n", "n", "@", "x", ".", "c", "o">>, v_A,
                      <<" ", "A", "n", "n", " ">>, v_Lee>>,
            <<e_bad, v_A, v_A, v_Ng>>, <<e_bo, v_A, v_Bo>> >>),
     Rows(<< <<<<" ", "F", "i", "r", "s", "t", "_", "N", "a", "m", "e">>, h_web,
               h_last_name, raw_EMAIL>>,
            <<v_Ann, e_bad, v_Lee, e_ann>>, <<v_Bo, <<>>, v_Ng, e_bo>>,
            <<v_Cy, <<" ", " ">>, v_A>> >>),
     \* two columns whose cleaned name is email
     Rows(<< <<h_email, h_first_name, h_last_name, raw_EMAIL>>,
            <<e_ann, v_Ann, v_Lee, e_bo>>,
            <<e_bad, v_Bo, v_Ng, <<"c", "y", "@", "x", ".", "c", "o">> >> >>),
     Rows(<<<<h_first_name, h_last_name, h_web, raw_notes>>, <<v_Ann, v_Lee, e_bad, v_A>> >>)}

\* every sheet parsed under every permutation of its columns, computed once
PermuteMemo ==
    [c \in Sheets |->
        [perm \in Perms(Len(c.rows[1])) |-> parseExcelContent(Permute(c, perm))]]

\* ExcelService.parseExcelContent on a sheet and on the same sheet with its
\* columns permuted
ParsePermuted ==
    /\ out = NoCall
    /\ \E c \in Sheets :
         \E perm \in Perms(Len(c.rows[1])) :
             out' = [op |-> "parse", content |-> c, perm |-> perm,
                     result |-> PermuteMemo[c][[i \in DOMAIN perm |-> i]],
                     permuted |-> PermuteMemo[c][perm]]
    /\ UNCHANGED <<table, autoInc, cache, jobs, mu, task, returned, seen>>

NextSheet == MapHeaders \/ ParsePermuted

SheetSpec == Init /\ [][NextSheet]_vars

(***************************************************************************)
(* Concurrent requests on the employees table: CreateEmployee,             *)
(* UpdateEmployee and the transaction of a spreadsheet ingestion, each     *)
(* request a goroutine in task, one action per database call.  The table   *)
(* has a unique index on email: an insert or update that would repeat an   *)
(* email fails, and it waits while another transaction holds that email    *)
(* uncommitted.                                                            *)
(***************************************************************************)
MaxRequests == 2

\* a request at position pc; employee is the record it works on, data the
\* update it was given, rows/k/tx/failAt the batch of an ingestion
Request(op, pc, employee, data, err) ==
    [op |-> op, pc |-> pc, employee |-> employee, data |-> data, err |-> err,
     rows |-> <<>>, k |-> 0, tx |-> {}, failAt |-> 0]

\* an index that accepts every email
uniqueViolation_Off(email, id, tbl) == FALSE

\* the unique index on email rejects the row id with this email
uniqueViolation(email, id, tbl) == \E e \in tbl : e.Email = email /\ e.ID # id

\* another open transaction holds this email in a row it has not committed
Blocked(j, email) ==
    \E n \in DOMAIN task : n # j /\ task[n].pc = "tx" /\ email \in Emails(task[n].tx)

\* RedisClient.SetEmployee
SetEmployee(c, employee) ==
    ([ns |-> "employee", key |-> employee.ID] :> employee) @@ c

\* EmployeeService.CreateEmployee: validate.Struct
CreateEmployee_Begin ==
    /\ Len(task) < MaxRequests
    /\ \E employee \in {[EmptyEmployee EXCEPT !.FirstName = v_Bo, !.LastName = v_Ng,
                                                !.Email = e] : e \in {e_ann, e_bo, e_bad}} :
         task' = Append(task,
                    IF ValidateStruct(employee, 1) # <<>>
                    THEN Request("create", "done", employee, Nil, <<"validation failed">>)
                    ELSE Request("create", "checkEmail", employee, Nil, NoErr))
    /\ UNCHANGED <<table, autoInc, cache>>
    /\ UNCHANGED <<jobs, mu, returned, out, seen>>

\* EmployeeService.CreateEmployee: s.repo.GetEmployeeByEmail(employee.Email)
CreateEmployee_Check(j) ==
    /\ task[j].op = "create"
    /\ task[j].pc = "checkEmail"
    /\ task' = IF task[j].employee.Email \in Emails(table)
               THEN [task EXCEPT ![j].pc = "done",
                                 ![j].err = <<"employee with email already exists">>]
               ELSE [task EXCEPT ![j].pc = "create"]
    /\ UNCHANGED <<table, autoInc, cache>>
    /\ UNCHANGED <<jobs, mu, returned, out, seen>>

\* EmployeeService.CreateEmployee: s.repo.CreateEmployee(employee), then
\* SetEmployee and InvalidateEmployeeListCache
CreateEmployee_Insert(j) ==
    /\ task[j].op = "create"
    /\ task[j].pc = "create"
    /\ ~Blocked(j, task[j].employee.Email)
    /\ IF uniqueViolation(task[j].employee.Email, 0, table)
       THEN /\ task' = [task EXCEPT ![j].pc = "done",
                                    ![j].err = <<"failed to create employee",
                                                 "Duplicate entry">>]
            /\ UNCHANGED <<table, autoInc, cache>>
       ELSE /\ table' = table \cup {[task[j].employee EXCEPT !.ID = autoInc]}
            /\ autoInc' = autoInc + 1
            /\ cache' = InvalidateEmployeeListCache(
                            SetEmployee(cache, [task[j].employee EXCEPT !.ID = autoInc]),
                            FALSE)
            /\ task' = [task EXCEPT ![j].pc = "done", ![j].employee.ID = autoInc]
    /\ UNCHANGED <<jobs, mu, returned, out, seen>>

\* EmployeeService.UpdateEmployee: s.repo.GetEmployeeByID(id)
UpdateEmployee_Begin ==
    /\ Len(task) < MaxRequests
    /\ \E id \in {1, 2},
          updateData \in
              {[EmptyEmployee EXCEPT !.FirstName = v_Cy, !.Email = e] :
                  e \in {<<>>, e_ann, e_bo}}
              \cup {EmptyEmployee, [EmptyEmployee EXCEPT !.ID = 2, !.LastName = v_Lee]} :
         task' = Append(task,
                    IF \E e \in table : e.ID = id
                    THEN Request("update", "checkEmail",
                                 CHOOSE e \in table : e.ID = id, updateData, NoErr)
                    ELSE Request("update", "done", Nil, updateData,
                                 <<"employee with ID not found", id>>))
    /\ UNCHANGED <<table, autoInc, cache>>
    /\ UNCHANGED <<jobs, mu, returned, out, seen>>

\* an update that assigns nothing
mergeUpdate_KeepAll(existingEmployee, updateData) == existingEmployee

\* the `if updateData.X != ""` assignments of UpdateEmployee
mergeUpdate(existingEmployee, updateData) ==
    [f \in DOMAIN existingEmployee |->
        IF f # "ID" /\ updateData[f] # <<>> THEN updateData[f] ELSE existingEmployee[f]]

\* EmployeeService.UpdateEmployee: the email check, the field updates and
\* validate.Struct
UpdateEmployee_Check(j) ==
    /\ task[j].op = "update"
    /\ task[j].pc = "checkEmail"
    /\ task' =
          IF /\ task[j].data.Email # <<>>
             /\ task[j].data.Email # task[j].employee.Email
             /\ task[j].data.Email \in Emails(table)
          THEN [task EXCEPT ![j].pc = "done",
                            ![j].err = <<"employee with email already exists">>]
          ELSE IF ValidateStruct(mergeUpdate(task[j].employee, task[j].data), 1) # <<>>
          THEN [task EXCEPT ![j].pc = "done", ![j].err = <<"validation failed">>]
          ELSE [task EXCEPT ![j].pc = "save",
                            ![j].employee = mergeUpdate(task[j].employee, task[j].data)]
    /\ UNCHANGED <<table, autoInc, cache>>
    /\ UNCHANGED <<jobs, mu, returned, out, seen>>

\* EmployeeService.UpdateEmployee: s.repo.UpdateEmployee(existingEmployee)
\* (db.Save writes every column of the row with this ID), then SetEmployee
\* and InvalidateEmployeeListCache
UpdateEmployee_Save(j) ==
    /\ task[j].op = "update"
    /\ task[j].pc = "save"
    /\ ~Blocked(j, task[j].employee.Email)
    /\ IF uniqueViolation(task[j].employee.Email, task[j].employee.ID, table)
       THEN /\ task' = [task EXCEPT ![j].pc = "done",
                                    ![j].err = <<"failed to update employee",
                                                 "Duplicate entry">>]
            /\ UNCHANGED <<table, cache>>
       ELSE /\ table' = {e \in table : e.ID # task[j].employee.ID}
                            \cup {task[j].employee}
            /\ cache' = InvalidateEmployeeListCache(SetEmployee(cache, task[j].employee),
                                                    FALSE)
            /\ task' = [task EXCEPT ![j].pc = "done"]
    /\ UNCHANGED autoInc
    /\ UNCHANGED <<jobs, mu, returned, out, seen>>

\* CreateEmployeesInBatchWithResult: r.db.Transaction begins
Ingest_Begin ==
    /\ Len(task) < MaxRequests
    /\ \E file \in {F_annbo} : \E failAt \in FailChoices(file) :
         task' = Append(task,
                    [Request("ingest", "tx", Nil, Nil, NoErr) EXCEPT
                        !.rows = ParseMemo[file.Content].employees,
                        !.k = 1, !.failAt = failAt])
    /\ UNCHANGED <<table, autoInc, cache>>
    /\ UNCHANGED <<jobs, mu, returned, out, seen>>

\* CreateEmployeesInBatchWithResult: one tx.Create(&employee); a duplicate is
\* skipped, any other error rolls the transaction back
Ingest_Create(j) ==
    /\ task[j].op = "ingest"
    /\ task[j].pc = "tx"
    /\ task[j].k <= Len(task[j].rows)
    /\ IF task[j].k = task[j].failAt
       THEN /\ task' = [task EXCEPT ![j].pc = "done", ![j].tx = {},
                                    ![j].err = <<"storage failure">>]
            /\ UNCHANGED autoInc
       ELSE /\ ~Blocked(j, task[j].rows[task[j].k].Email)
            /\ IF uniqueViolation(task[j].rows[task[j].k].Email, 0,
                                  table \cup task[j].tx)
               THEN /\ task' = [task EXCEPT ![j].k = @ + 1]
                    /\ UNCHANGED autoInc
               ELSE /\ task' = [task EXCEPT
                                  ![j].k = @ + 1,
                                  ![j].tx = @ \cup {[task[j].rows[task[j].k]
                                                        EXCEPT !.ID = autoInc]}]
                    /\ autoInc' = autoInc + 1
    /\ UNCHANGED <<table, cache>>
    /\ UNCHANGED <<jobs, mu, returned, out, seen>>

\* the transaction commits; ProcessExcelFile invalidates the list cache
Ingest_Commit(j) ==
    /\ task[j].op = "ingest"
    /\ task[j].pc = "tx"
    /\ task[j].k > Len(task[j].rows)
    /\ table' = table \cup task[j].tx
    /\ cache' = InvalidateEmployeeListCache(cache, FALSE)
    /\ task' = [task EXCEPT ![j].pc = "done", ![j].tx = {}]
    /\ UNCHANGED autoInc
    /\ UNCHANGED <<jobs, mu, returned, out, seen>>

NextCrud ==
    \/ CreateEmployee_Begin
    \/ UpdateEmployee_Begin
    \/ Ingest_Begin
    \/ \E j \in DOMAIN task : CreateEmployee_Check(j)
    \/ \E j \in DOMAIN task : CreateEmployee_Insert(j)
    \/ \E j \in DOMAIN task : UpdateEmployee_Check(j)
    \/ \E j \in DOMAIN task : UpdateEmployee_Save(j)
    \/ \E j \in DOMAIN task : Ingest_Create(j)
    \/ \E j \in DOMAIN task : Ingest_Commit(j)

CrudSpec == Init /\ [][NextCrud]_vars

(***************************************************************************)
(* The operations of EmployeeService, one call at a time.  fail is the set *)
(* of the cache calls of the operation that return an error: "get"         *)
(* (GetEmployee / GetEmployeeList), "set" (SetEmployee / SetEmployeeList), *)
(* "del" (DeleteEmployee) and "inv" (InvalidateEmployeeListCache).         *)
(***************************************************************************)
\* the key SetEmployee / GetEmployee / DeleteEmployee use in Redis
RecordKey(id) == [ns |-> "employee", key |-> id]

\* RedisClient.DeleteEmployee; nothing is deleted when the call fails
CacheDeleteEmployee(c, id, cacheFail) ==
    IF cacheFail THEN c
    ELSE [k \in DOMAIN c \ {RecordKey(id)} |-> c[k]]

\* RedisClient.SetEmployee; nothing is written when the call fails
CacheSetEmployee(c, employee, cacheFail) ==
    IF cacheFail THEN c ELSE SetEmployee(c, employee)

\* RedisClient.SetEmployeeList; nothing is written when the call fails
SetEmployeeList(c, key, employees, total, cacheFail) ==
    IF cacheFail THEN c
    ELSE (ListKey(key) :> [Employees |-> employees, Total |-> total]) @@ c

\* EmployeeRepository.GetEmployeeByID: the row, Nil for ErrRecordNotFound
RepoGetEmployeeByID(tbl, id) ==
    IF \E e \in tbl : e.ID = id THEN CHOOSE e \in tbl : e.ID = id ELSE Nil

\* EmployeeRepository.SearchEmployees: LIKE %query% on four columns (the
\* comparison of the default collation ignores case)
RepoSearchEmployees(tbl, query, limit, offset) ==
    RepoGetAllEmployees(
        {e \in tbl : \E f \in {"FirstName", "LastName", "Email", "CompanyName"} :
                    \E i \in 0..(Len(e[f]) - Len(query)) :
                        SubSeq(ToLower(e[f]), i + 1, i + Len(query)) = ToLower(query)},
        limit, offset)

\* GetEmployeeByID that returns the error of the cache
GetEmployeeByID_CacheErrorFails(id, tbl, c, fail) ==
    IF "get" \in fail
    THEN [result |-> Nil, err |-> <<"failed to get cached employee">>, cache |-> c]
    ELSE IF RecordKey(id) \in DOMAIN c
    THEN [result |-> c[RecordKey(id)], err |-> NoErr, cache |-> c]
    ELSE IF RepoGetEmployeeByID(tbl, id) = Nil
    THEN [result |-> Nil, err |-> <<"employee with ID not found", id>>, cache |-> c]
    ELSE [result |-> RepoGetEmployeeByID(tbl, id), err |-> NoErr,
          cache |-> CacheSetEmployee(c, RepoGetEmployeeByID(tbl, id), "set" \in fail)]

\* EmployeeService.GetEmployeeByID
GetEmployeeByID(id, tbl, c, fail) ==
    IF "get" \notin fail /\ RecordKey(id) \in DOMAIN c
    THEN [result |-> c[RecordKey(id)], err |-> NoErr, cache |-> c]
    ELSE IF RepoGetEmployeeByID(tbl, id) = Nil
    THEN [result |-> Nil, err |-> <<"employee with ID not found", id>>, cache |-> c]
    ELSE [result |-> RepoGetEmployeeByID(tbl, id), err |-> NoErr,
          cache |-> CacheSetEmployee(c, RepoGetEmployeeByID(tbl, id), "set" \in fail)]

\* EmployeeService.SearchEmployees; with an empty query it is
\* EmployeeService.GetAllEmployees
SearchEmployees(query, limit, offset, tbl, c, fail) ==
    LET cacheKey(q) == GenerateListCacheKey(limit, offset, q)
        answer(key, page) ==
            IF "get" \notin fail /\ ListKey(key) \in DOMAIN c
            THEN [employees |-> c[ListKey(key)].Employees,
                  total |-> c[ListKey(key)].Total, err |-> NoErr, cache |-> c]
            ELSE [employees |-> page.employees, total |-> page.total, err |-> NoErr,
                  cache |-> SetEmployeeList(c, key, page.employees, page.total,
                                            "set" \in fail)]
    IN  IF TrimSpace(query) = <<>>
        THEN answer(cacheKey(<<>>), RepoGetAllEmployees(tbl, limit, offset))
        ELSE answer(cacheKey(TrimSpace(query)),
                    RepoSearchEmployees(tbl, TrimSpace(query), limit, offset))

\* CreateEmployee that invalidates nothing
CreateEmployee_NoInvalidate(employee, tbl, ai, c, fail) ==
    IF ValidateStruct(employee, 1) # <<>>
    THEN [result |-> Nil, err |-> <<"validation failed">>,
          table |-> tbl, autoInc |-> ai, cache |-> c]
    ELSE IF employee.Email \in Emails(tbl)
    THEN [result |-> Nil, err |-> <<"employee with email already exists">>,
          table |-> tbl, autoInc |-> ai, cache |-> c]
    ELSE [result |-> [employee EXCEPT !.ID = ai], err |-> NoErr,
          table |-> tbl \cup {[employee EXCEPT !.ID = ai]}, autoInc |-> ai + 1,
          cache |-> CacheSetEmployee(c, [employee EXCEPT !.ID = ai], "set" \in fail)]

\* EmployeeService.CreateEmployee
CreateEmployee(employee, tbl, ai, c, fail) ==
    IF ValidateStruct(employee, 1) # <<>>
    THEN [result |-> Nil, err |-> <<"validation failed">>,
          table |-> tbl, autoInc |-> ai, cache |-> c]
    ELSE IF employee.Email \in Emails(tbl)
    THEN [result |-> Nil, err |-> <<"employee with email already exists">>,
          table |-> tbl, autoInc |-> ai, cache |-> c]
    ELSE [result |-> [employee EXCEPT !.ID = ai], err |-> NoErr,
          table |-> tbl \cup {[employee EXCEPT !.ID = ai]}, autoInc |-> ai + 1,
          cache |-> InvalidateEmployeeListCache(
                        CacheSetEmployee(c, [employee EXCEPT !.ID = ai], "set" \in fail),
                        "inv" \in fail)]

\* EmployeeService.UpdateEmployee
UpdateEmployee(id, updateData, tbl, c, fail) ==
    LET refuse(e) == [result |-> Nil, err |-> e, table |-> tbl, cache |-> c]
        save(existingEmployee, updated) ==
            IF /\ updateData.Email # <<>>
               /\ updateData.Email # existingEmployee.Email
               /\ updateData.Email \in Emails(tbl)
            THEN refuse(<<"employee with email already exists">>)
            ELSE IF ValidateStruct(updated, 1) # <<>>
            THEN refuse(<<"validation failed">>)
            ELSE [result |-> updated, err |-> NoErr,
                  table |-> (tbl \ {existingEmployee}) \cup {updated},
                  cache |-> InvalidateEmployeeListCache(
                                CacheSetEmployee(c, updated, "set" \in fail),
                                "inv" \in fail)]
        found(existingEmployee) ==
            save(existingEmployee, mergeUpdate(existingEmployee, updateData))
    IN  IF RepoGetEmployeeByID(tbl, id) = Nil
        THEN refuse(<<"employee with ID not found", id>>)
        ELSE found(RepoGetEmployeeByID(tbl, id))

\* EmployeeService.DeleteEmployee
DeleteEmployee(id, tbl, c, fail) ==
    IF RepoGetEmployeeByID(tbl, id) = Nil
    THEN [err |-> <<"employee with ID not found", id>>, table |-> tbl, cache |-> c]
    ELSE [err |-> NoErr, table |-> {e \in tbl : e.ID # id},
          cache |-> InvalidateEmployeeListCache(
                        CacheDeleteEmployee(c, id, "del" \in fail), "inv" \in fail)]

\* the number of calls in one behaviour
MaxCalls == 2

\* the record of a finished call in task
Returned(op) == Request(op, "done", Nil, Nil, NoErr)

Call_GetEmployeeByID ==
    /\ Len(task) < MaxCalls
    /\ task' = Append(task, Returned("get"))
    /\ \E id \in {1, 2}, fail \in SUBSET {"get", "set"} :
         \E r \in {GetEmployeeByID(id, table, cache, fail)} :
             /\ cache' = r.cache
             /\ out' = [op |-> "get", id |-> id, fail |-> fail,
                        result |-> r.result, err |-> r.err]
    /\ UNCHANGED <<table, autoInc, jobs, mu, returned, seen>>

Call_SearchEmployees ==
    /\ Len(task) < MaxCalls
    /\ task' = Append(task, Returned("search"))
    /\ \E query \in {<<>>, <<"b", "o">>},
          q \in {[limit |-> 10, offset |-> 0], [limit |-> 1, offset |-> 1]},
          fail \in SUBSET {"get", "set"} :
         \E r \in {SearchEmployees(query, q.limit, q.offset, table, cache, fail)} :
             /\ cache' = r.cache
             /\ out' = [op |-> "search", query |-> query, limit |-> q.limit,
                        offset |-> q.offset, fail |-> fail,
                        employees |-> r.employees, total |-> r.total, err |-> r.err]
    /\ UNCHANGED <<table, autoInc, jobs, mu, returned, seen>>

Call_CreateEmployee ==
    /\ Len(task) < MaxCalls
    /\ task' = Append(task, Returned("create"))
    /\ \E employee \in {[EmptyEmployee EXCEPT !.FirstName = v_Bo, !.LastName = v_Ng,
                                                !.Email = e] : e \in {e_ann, e_bo, e_bad}},
          fail \in SUBSET {"set", "inv"} :
         \E r \in {CreateEmployee(employee, table, autoInc, cache, fail)} :
             /\ table' = r.table
             /\ autoInc' = r.autoInc
             /\ cache' = r.cache
             /\ out' = [op |-> "create", employee |-> employee, fail |-> fail,
                        result |-> r.result, err |-> r.err]
    /\ UNCHANGED <<jobs, mu, returned, seen>>

Call_UpdateEmployee ==
    /\ Len(task) < MaxCalls
    /\ task' = Append(task, Returned("update"))
    /\ \E id \in {1, 2},
          updateData \in {[EmptyEmployee EXCEPT !.FirstName = v_Cy],
                          [EmptyEmployee EXCEPT !.Email = e_bo]},
          fail \in SUBSET {"set", "inv"} :
         \E r \in {UpdateEmployee(id, updateData, table, cache, fail)} :
             /\ table' = r.table
             /\ cache' = r.cache
             /\ out' = [op |-> "update", id |-> id, updateData |-> updateData,
                        fail |-> fail, result |-> r.result, err |-> r.err]
    /\ UNCHANGED <<autoInc, jobs, mu, returned, seen>>

Call_DeleteEmployee ==
    /\ Len(task) < MaxCalls
    /\ task' = Append(task, Returned("delete"))
    /\ \E id \in {1, 2}, fail \in SUBSET {"del", "inv"} :
         \E r \in {DeleteEmployee(id, table, cache, fail)} :
             /\ table' = r.table
             /\ cache' = r.cache
             /\ out' = [op |-> "delete", id |-> id, fail |-> fail, err |-> r.err]
    /\ UNCHANGED <<autoInc, jobs, mu, returned, seen>>

\* ExcelService.ProcessExcelFile among the calls of EmployeeService
Call_ProcessExcelFile ==
    /\ Len(task) < MaxCalls
    /\ task' = Append(task, Returned("upload"))
    /\ \E file \in {F_annbo} :
         \E failAt \in FailChoices(file), cacheFail \in BOOLEAN :
           \E r \in {ProcessExcelFile(file, table, autoInc, cache, failAt, cacheFail)} :
               /\ table' = r.table
               /\ autoInc' = r.autoInc
               /\ cache' = r.cache
               /\ out' = [op |-> "upload", file |-> file, failAt |-> failAt,
                          fail |-> IF cacheFail THEN {"inv"} ELSE {},
                          resp |-> r.resp, err |-> r.err, dbErr |-> r.dbErr]
    /\ UNCHANGED <<jobs, mu, returned, seen>>

NextService ==
    \/ Call_GetEmployeeByID
    \/ Call_SearchEmployees
    \/ Call_CreateEmployee
    \/ Call_UpdateEmployee
    \/ Call_DeleteEmployee
    \/ Call_ProcessExcelFile

ServiceSpec == Init /\ [][NextService]_vars

(***************************************************************************)
(* Concurrent GetEmployeeByID, UpdateEmployee and DeleteEmployee on one    *)
(* record, one action per repository or cache call; no cache call fails    *)
(* and no entry expires.  A request in task keeps the id in k and the      *)
(* record it holds in employee.                                            *)
(***************************************************************************)
\* the id all requests are about

\* a request arrives
GetEmployeeByID_Begin ==
    /\ Len(task) < MaxRequests
    /\ task' = Append(task, [Request("get", "cacheGet", Nil, Nil, NoErr) EXCEPT
                                !.k = (1)])
    /\ UNCHANGED <<table, autoInc, cache, jobs, mu, returned, out, seen>>

UpdateEmployee_Start ==
    /\ Len(task) < MaxRequests
    /\ \E updateData \in {[EmptyEmployee EXCEPT !.FirstName = v_Cy],
                            [EmptyEmployee EXCEPT !.LastName = v_Lee]} :
         task' = Append(task, [Request("update", "repoGet", Nil, updateData, NoErr) EXCEPT
                                  !.k = (1)])
    /\ UNCHANGED <<table, autoInc, cache, jobs, mu, returned, out, seen>>

DeleteEmployee_Start ==
    /\ Len(task) < MaxRequests
    /\ task' = Append(task, [Request("delete", "repoGet", Nil, Nil, NoErr) EXCEPT
                                !.k = (1)])
    /\ UNCHANGED <<table, autoInc, cache, jobs, mu, returned, out, seen>>

\* GetEmployeeByID: s.cache.GetEmployee(id); a hit returns the cached record
GetEmployeeByID_CacheGet(j) ==
    /\ task[j].op = "get" /\ task[j].pc = "cacheGet"
    /\ task' = IF RecordKey(task[j].k) \in DOMAIN cache
               THEN [task EXCEPT ![j].pc = "done",
                                 ![j].employee = cache[RecordKey(task[j].k)]]
               ELSE [task EXCEPT ![j].pc = "repoGet"]
    /\ UNCHANGED <<table, autoInc, cache, jobs, mu, returned, out, seen>>

\* GetEmployeeByID: s.repo.GetEmployeeByID(id)
GetEmployeeByID_RepoGet(j) ==
    /\ task[j].op = "get" /\ task[j].pc = "repoGet"
    /\ task' = IF RepoGetEmployeeByID(table, task[j].k) = Nil
               THEN [task EXCEPT ![j].pc = "done",
                                 ![j].err = <<"employee with ID not found", task[j].k>>]
               ELSE [task EXCEPT ![j].pc = "cacheSet",
                                 ![j].employee = RepoGetEmployeeByID(table, task[j].k)]
    /\ UNCHANGED <<table, autoInc, cache, jobs, mu, returned, out, seen>>

\* UpdateEmployee: s.repo.GetEmployeeByID(id), the email check (not made
\* when the email does not change), the field updates and validate.Struct
UpdateEmployee_RepoGet(j) ==
    /\ task[j].op = "update" /\ task[j].pc = "repoGet"
    /\ task' =
          IF RepoGetEmployeeByID(table, task[j].k) = Nil
          THEN [task EXCEPT ![j].pc = "done",
                            ![j].err = <<"employee with ID not found", task[j].k>>]
          ELSE IF /\ task[j].data.Email # <<>>
                  /\ task[j].data.Email # RepoGetEmployeeByID(table, task[j].k).Email
                  /\ task[j].data.Email \in Emails(table)
          THEN [task EXCEPT ![j].pc = "done",
                            ![j].err = <<"employee with email already exists">>]
          ELSE IF ValidateStruct(mergeUpdate(RepoGetEmployeeByID(table, task[j].k),
                                             task[j].data), 1) # <<>>
          THEN [task EXCEPT ![j].pc = "done", ![j].err = <<"validation failed">>]
          ELSE [task EXCEPT ![j].pc = "repoSave",
                            ![j].employee = mergeUpdate(
                                RepoGetEmployeeByID(table, task[j].k), task[j].data)]
    /\ UNCHANGED <<table, autoInc, cache, jobs, mu, returned, out, seen>>

\* UpdateEmployee: s.repo.UpdateEmployee(existingEmployee); db.Save updates
\* the row with this ID and inserts it when no row has it
UpdateEmployee_RepoSave(j) ==
    /\ task[j].op = "update" /\ task[j].pc = "repoSave"
    /\ IF uniqueViolation(task[j].employee.Email, task[j].employee.ID, table)
       THEN /\ task' = [task EXCEPT ![j].pc = "done",
                                    ![j].err = <<"failed to update employee",
                                                 "Duplicate entry">>]
            /\ UNCHANGED table
       ELSE /\ table' = {e \in table : e.ID # task[j].employee.ID}
                            \cup {task[j].employee}
            /\ task' = [task EXCEPT ![j].pc = "cacheSet"]
    /\ UNCHANGED <<autoInc, cache, jobs, mu, returned, out, seen>>

\* DeleteEmployee: s.repo.GetEmployeeByID(id)
DeleteEmployee_RepoGet(j) ==
    /\ task[j].op = "delete" /\ task[j].pc = "repoGet"
    /\ task' = IF RepoGetEmployeeByID(table, task[j].k) = Nil
               THEN [task EXCEPT ![j].pc = "done",
                                 ![j].err = <<"employee with ID not found", task[j].k>>]
               ELSE [task EXCEPT ![j].pc = "repoDelete"]
    /\ UNCHANGED <<table, autoInc, cache, jobs, mu, returned, out, seen>>

\* DeleteEmployee: s.repo.DeleteEmployee(id)
DeleteEmployee_RepoDelete(j) ==
    /\ task[j].op = "delete" /\ task[j].pc = "repoDelete"
    /\ table' = {e \in table : e.ID # task[j].k}
    /\ task' = [task EXCEPT ![j].pc = "cacheDelete"]
    /\ UNCHANGED <<autoInc, cache, jobs, mu, returned, out, seen>>

\* DeleteEmployee: s.cache.DeleteEmployee(id)
DeleteEmployee_CacheDelete(j) ==
    /\ task[j].op = "delete" /\ task[j].pc = "cacheDelete"
    /\ cache' = CacheDeleteEmployee(cache, task[j].k, FALSE)
    /\ task' = [task EXCEPT ![j].pc = "invalidate"]
    /\ UNCHANGED <<table, autoInc, jobs, mu, returned, out, seen>>

\* s.cache.SetEmployee(employee) of GetEmployeeByID (which then returns),
\* UpdateEmployee and CreateEmployee
Request_CacheSet(j) ==
    /\ task[j].pc = "cacheSet"
    /\ cache' = SetEmployee(cache, task[j].employee)
    /\ task' = [task EXCEPT ![j].pc = IF task[j].op = "get" THEN "done"
                                      ELSE "invalidate"]
    /\ UNCHANGED <<table, autoInc, jobs, mu, returned, out, seen>>

\* s.cache.InvalidateEmployeeListCache(), after which the write returns
Request_Invalidate(j) ==
    /\ task[j].pc = "invalidate"
    /\ cache' = InvalidateEmployeeListCache(cache, FALSE)
    /\ task' = [task EXCEPT ![j].pc = "done"]
    /\ UNCHANGED <<table, autoInc, jobs, mu, returned, out, seen>>

NextRecordCache ==
    \/ GetEmployeeByID_Begin
    \/ UpdateEmployee_Start
    \/ DeleteEmployee_Start
    \/ \E j \in DOMAIN task : GetEmployeeByID_CacheGet(j)
    \/ \E j \in DOMAIN task : GetEmployeeByID_RepoGet(j)
    \/ \E j \in DOMAIN task : UpdateEmployee_RepoGet(j)
    \/ \E j \in DOMAIN task : UpdateEmployee_RepoSave(j)
    \/ \E j \in DOMAIN task : DeleteEmployee_RepoGet(j)
    \/ \E j \in DOMAIN task : DeleteEmployee_RepoDelete(j)
    \/ \E j \in DOMAIN task : DeleteEmployee_CacheDelete(j)
    \/ \E j \in DOMAIN task : Request_CacheSet(j)
    \/ \E j \in DOMAIN task : Request_Invalidate(j)

RecordCacheSpec == Init /\ [][NextRecordCache]_vars

(***************************************************************************)
(* Concurrent list and search reads with CreateEmployee and                *)
(* DeleteEmployee, one action per repository or cache call; no cache call  *)
(* fails and no entry expires.  A read keeps its arguments in data, the    *)
(* page it holds in rows and the total in k.                               *)
(***************************************************************************)
\* GetAllEmployees(limit, offset) is the search with the empty query
SearchEmployees_Begin ==
    /\ Len(task) < MaxRequests
    /\ \E query \in {<<>>, <<"b", "o">>},
          q \in {[limit |-> 10, offset |-> 0], [limit |-> 1, offset |-> 1]} :
         task' = Append(task,
                    Request("search", "cacheGet", Nil,
                            [query |-> TrimSpace(query), limit |-> q.limit,
                             offset |-> q.offset], NoErr))
    /\ UNCHANGED <<table, autoInc, cache, jobs, mu, returned, out, seen>>

\* the cache key of the read j
ReadKey(j) ==
    ListKey(GenerateListCacheKey(task[j].data.limit, task[j].data.offset,
                                 task[j].data.query))

\* the page the repository returns for a list cache key
PageOf(key, tbl) ==
    IF key.key[1] = "all"
    THEN RepoGetAllEmployees(tbl, key.key[3], key.key[5])
    ELSE RepoSearchEmployees(tbl, key.key[2], key.key[4], key.key[6])

\* s.cache.GetEmployeeList(cacheKey); a hit returns the cached page
SearchEmployees_CacheGet(j) ==
    /\ task[j].op = "search" /\ task[j].pc = "cacheGet"
    /\ task' = IF ReadKey(j) \in DOMAIN cache
               THEN [task EXCEPT ![j].pc = "done",
                                 ![j].rows = cache[ReadKey(j)].Employees,
                                 ![j].k = cache[ReadKey(j)].Total]
               ELSE [task EXCEPT ![j].pc = "repoSearch"]
    /\ UNCHANGED <<table, autoInc, cache, jobs, mu, returned, out, seen>>

\* s.repo.GetAllEmployees(limit, offset) / s.repo.SearchEmployees(query, ...)
SearchEmployees_RepoSearch(j) ==
    /\ task[j].op = "search" /\ task[j].pc = "repoSearch"
    /\ task' = [task EXCEPT ![j].pc = "cacheSetList",
                            ![j].rows = PageOf(ReadKey(j), table).employees,
                            ![j].k = PageOf(ReadKey(j), table).total]
    /\ UNCHANGED <<table, autoInc, cache, jobs, mu, returned, out, seen>>

\* s.cache.SetEmployeeList(cacheKey, employees, total), then the read returns
SearchEmployees_CacheSet(j) ==
    /\ task[j].op = "search" /\ task[j].pc = "cacheSetList"
    /\ cache' = (ReadKey(j) :> [Employees |-> task[j].rows, Total |-> task[j].k]) @@ cache
    /\ task' = [task EXCEPT ![j].pc = "done"]
    /\ UNCHANGED <<table, autoInc, jobs, mu, returned, out, seen>>

\* CreateEmployee: s.repo.CreateEmployee(employee)
CreateEmployee_RepoCreate(j) ==
    /\ task[j].op = "create" /\ task[j].pc = "create"
    /\ IF uniqueViolation(task[j].employee.Email, 0, table)
       THEN /\ task' = [task EXCEPT ![j].pc = "done",
                                    ![j].err = <<"failed to create employee",
                                                 "Duplicate entry">>]
            /\ UNCHANGED <<table, autoInc>>
       ELSE /\ table' = table \cup {[task[j].employee EXCEPT !.ID = autoInc]}
            /\ autoInc' = autoInc + 1
            /\ task' = [task EXCEPT ![j].pc = "cacheSet", ![j].employee.ID = autoInc]
    /\ UNCHANGED <<cache, jobs, mu, returned, out, seen>>

NextListCache ==
    \/ SearchEmployees_Begin
    \/ CreateEmployee_Begin
    \/ DeleteEmployee_Start
    \/ \E j \in DOMAIN task : SearchEmployees_CacheGet(j)
    \/ \E j \in DOMAIN task : SearchEmployees_RepoSearch(j)
    \/ \E j \in DOMAIN task : SearchEmployees_CacheSet(j)
    \/ \E j \in DOMAIN task : CreateEmployee_Check(j)
    \/ \E j \in DOMAIN task : CreateEmployee_RepoCreate(j)
    \/ \E j \in DOMAIN task : DeleteEmployee_RepoGet(j)
    \/ \E j \in DOMAIN task : DeleteEmployee_RepoDelete(j)
    \/ \E j \in DOMAIN task : DeleteEmployee_CacheDelete(j)
    \/ \E j \in DOMAIN task : Request_CacheSet(j)
    \/ \E j \in DOMAIN task : Request_Invalidate(j)

ListCacheSpec == Init /\ [][NextListCache]_vars

(***************************************************************************)
(* The ingestion of a file with more valid records than one batch: the     *)
(* transaction of CreateEmployeesInBatchWithResult, one tx.Create per      *)
(* step.                                                                   *)
(***************************************************************************)
\* `batchSize := 100` of CreateEmployeesInBatch
batchSize == 100

\* strconv.Itoa for n >= 0
RECURSIVE Itoa(_)
Itoa(n) ==
    IF n < 10 THEN << <<"0", "1", "2", "3", "4", "5", "6", "7", "8", "9">>[n + 1] >>
    ELSE Itoa(n \div 10) \o Itoa(n % 10)

\* the records ProcessExcelFile hands to CreateEmployeesInBatchWithResult
\* for a sheet with header hdr3 and batchSize + 1 valid rows with distinct
\* emails u1@x.co, u2@x.co, ...: every row parsed by parseEmployeeFromRow,
\* none with errors
BigEmployees ==
    [i \in 1..(batchSize + 1) |->
        parseEmployeeFromRow(
            <<v_Ann, v_Ng, <<"u">> \o Itoa(i) \o <<"@", "x", ".", "c", "o">> >>,
            validateAndMapHeaders(hdr3).headerMap, i + 1).employee]

\* ProcessExcelFile calls CreateEmployeesInBatchWithResult(employees)
Batch_Begin ==
    /\ task = <<>>
    /\ \E failAt \in {0, 1, batchSize, batchSize + 1} :
         task' = <<[Request("ingest", "tx", Nil, Nil, NoErr) EXCEPT
                        !.rows = BigEmployees, !.k = 1, !.failAt = failAt]>>
    /\ UNCHANGED <<table, autoInc, cache, jobs, mu, returned, out, seen>>

NextBatch ==
    \/ Batch_Begin
    \/ \E j \in DOMAIN task : Ingest_Create(j)
    \/ \E j \in DOMAIN task : Ingest_Commit(j)

BatchSpec == Init /\ [][NextBatch]_vars

(***************************************************************************)
(* The validator on its own: ValidateEmployeeData applied to records with  *)
(* each field empty, inside, at and beyond the limits of its struct tags   *)
(***************************************************************************)
\* a string of n letters
Rep(n) == [i \in 1..n |-> "a"]

\* an email of n characters with a valid syntax
EmailOfLen(n) == Rep(n - 5) \o <<"@", "x", ".", "c", "o">>

\* the `max=` of the optional text fields
OptionalCaps == [CompanyName |-> 100, Address |-> 255, City |-> 50, County |-> 50,
                 Postal |-> 20, Phone |-> 20]

\* the optional text fields all empty, all of maximal length, and all of
\* maximal length but one that is one character longer
OptionalProfiles ==
    {[f \in DOMAIN OptionalCaps |-> <<>>],
     [f \in DOMAIN OptionalCaps |-> Rep(OptionalCaps[f])]}
        \cup {[f \in DOMAIN OptionalCaps |->
                 Rep(OptionalCaps[f] + (IF f = over THEN 1 ELSE 0))] :
               over \in DOMAIN OptionalCaps}

ValidateInputs ==
    {[ID |-> 0, FirstName |-> fn, LastName |-> ln, Email |-> em, Web |-> web,
      CompanyName |-> o.CompanyName, Address |-> o.Address, City |-> o.City,
      County |-> o.County, Postal |-> o.Postal, Phone |-> o.Phone] :
        fn \in {<<>>, v_A, v_Bo, Rep(50), Rep(51)},
        ln \in {<<>>, v_Ng, Rep(51)},
        em \in {<<>>, e_ann, e_bad, EmailOfLen(255), EmailOfLen(256)},
        web \in {<<>>, <<"h", "t", "t", "p", ":", "/", "/", "x">>, <<"x", ".", "c", "o">>},
        o \in OptionalProfiles}

\* EmployeeService.ValidateEmployeeData(employee) on its own; the function
\* keeps no state, so each behaviour makes one call
ValidateData ==
    /\ out = NoCall
    /\ \E employee \in ValidateInputs :
         out' = [op |-> "validateData", employee |-> employee,
                 errors |-> ValidateEmployeeData(employee)]
    /\ UNCHANGED <<table, autoInc, cache, jobs, mu, task, returned, seen>>

ValidatorSpec == Init /\ [][(ValidateData)]_vars

(***************************************************************************)
(* Properties                                                              *)
(***************************************************************************)

\* C1: when the batch insert of a job's ingestion fails for a cause other
\* than a duplicate email, ProcessExcelFile returns an error and no summary,
\* and the job is never completed and ends in status failed.
C1_PersistFailureIsTerminal ==
    \A j \in DOMAIN task :
        task[j].dbErr # NoErr =>
            /\ task[j].status = JobStatusFailed
            /\ task[j].result = Nil
            /\ jobs[j].Status # JobStatusCompleted
            /\ task[j].pc = "done" => jobs[j].Status = JobStatusFailed

AllowedSteps ==
    {<<JobStatusPending, JobStatusRunning>>,
     <<JobStatusRunning, JobStatusCompleted>>,
     <<JobStatusRunning, JobStatusFailed>>}

\* C2: in every step, every job record is kept and its status either stays
\* or moves pending->running, running->completed or running->failed.
C2_StatusSteps ==
    [][\A j \in DOMAIN jobs :
          /\ j \in DOMAIN jobs'
          /\ jobs'[j].Status # jobs[j].Status =>
                <<jobs[j].Status, jobs'[j].Status>> \in AllowedSteps]_vars

C2_Witness ==
    \E j \in DOMAIN jobs, k \in DOMAIN jobs :
        /\ jobs[j].Status = JobStatusCompleted
        /\ jobs[k].Status = JobStatusFailed

\* C3: a submit of a file that fails validateExcelFile returns an error and
\* changes neither the job map nor the set of tasks; a submit of an eligible
\* file returns no error and the id of exactly one new record, which is
\* pending, with one new task, all other records and tasks unchanged.
C3_Submit ==
    [][(out' # out /\ out'.op = "submit") =>
          IF validateExcelFile(out'.file) # NoErr
          THEN /\ out'.err # NoErr
               /\ out'.jobID = NoJob
               /\ jobs' = jobs
               /\ task' = task
               /\ returned' = returned
          ELSE /\ out'.err = NoErr
               /\ out'.jobID \notin DOMAIN jobs
               /\ DOMAIN jobs' = DOMAIN jobs \cup {out'.jobID}
               /\ DOMAIN task' = DOMAIN task \cup {out'.jobID}
               /\ jobs'[out'.jobID].Status = JobStatusPending
               /\ jobs'[out'.jobID].ID = out'.jobID
               /\ \A j \in DOMAIN jobs : jobs'[j] = jobs[j] /\ task'[j] = task[j]
               /\ returned' = returned \cup {out'.jobID}]_vars

C3_Witness ==
    /\ out.op = "submit"
    /\ out.err # NoErr
    /\ Len(jobs) >= 1
    /\ jobs[Len(jobs)].Status = JobStatusPending

\* C4: at every point GetJobStatus succeeds for exactly the ids that a
\* submit has returned, and the last poll returned the record's pointer for
\* a returned id and "job not found" for any other id.
C4_Poll ==
    /\ \A id \in (1..(MaxJobs + 1)) : (GetJobStatus(id).err = NoErr) <=> (id \in returned)
    /\ out.op = "poll" =>
          /\ (out.err = NoErr) <=> (out.jobID \in returned)
          /\ out.err = NoErr => out.ptr = out.jobID
          /\ out.err # NoErr => out.err = <<"job not found">>

C4_Witness ==
    /\ out.op = "poll"
    /\ out.err = NoErr
    /\ task[out.jobID].pc = "done"
    /\ \E id \in (1..(MaxJobs + 1)) : id \notin returned

\* C5: the three fields a caller has read from a polled record are
\* consistent: completed with a summary and no error text, failed with error
\* text and no summary, pending or running with neither.
C5_NoTornRead ==
    DOMAIN seen = {"Status", "Result", "Error"} =>
        CASE seen["Status"] = JobStatusCompleted ->
                 seen["Result"] # Nil /\ seen["Error"] = <<>>
          [] seen["Status"] = JobStatusFailed ->
                 seen["Result"] = Nil /\ seen["Error"] # <<>>
          [] OTHER ->
                 seen["Result"] = Nil /\ seen["Error"] = <<>>

\* C6: under fair scheduling of the tasks every registered job eventually
\* has status completed or failed.
C6_Terminates ==
    \A j \in (1..MaxJobs) :
        (j \in DOMAIN jobs) ~>
            (j \in DOMAIN jobs /\ jobs[j].Status \in {JobStatusCompleted, JobStatusFailed})

C6_Witness ==
    \E j \in DOMAIN jobs :
        /\ jobs[j].Status \in {JobStatusCompleted, JobStatusFailed}
        /\ task[j].pc = "done"

\* C7: a finished job is failed exactly when ProcessExcelFile, run on the
\* same file, table and storage failure, returns an error, and then carries
\* that error; otherwise it is completed with the summary ProcessExcelFile
\* returns.
C7_AsyncMatchesSync ==
    \A j \in DOMAIN task :
        task[j].pc = "done" =>
            LET r == ProcessExcelFile(task[j].file, task[j].in.table, task[j].in.autoInc,
                                      [k \in {} |-> Nil], task[j].in.failAt, FALSE)
            IN  /\ (jobs[j].Status = JobStatusFailed) <=> (r.err # NoErr)
                /\ r.err # NoErr => jobs[j].Error = r.err /\ jobs[j].Result = Nil
                /\ r.err = NoErr =>
                      /\ jobs[j].Status = JobStatusCompleted
                      /\ jobs[j].Result = r.resp
                      /\ jobs[j].Error = <<>>

C7_Witness ==
    \E j \in DOMAIN task, k \in DOMAIN task :
        /\ task[j].pc = "done" /\ task[k].pc = "done"
        /\ jobs[j].Status = JobStatusCompleted
        /\ jobs[j].Result.SkippedRecords = 1
        /\ jobs[k].Status = JobStatusFailed

\* the file is rejected by validateExcelFile or by parseExcelContent
FailsEarly(file) ==
    \/ validateExcelFile(file) # NoErr
    \/ /\ file.Content.kind # "unreadable"
       /\ ParseMemo[file.Content].err # NoErr

\* C8: an upload of a file that fails validation or parsing returns an error
\* and no summary and leaves the table, its counter and the cache unchanged.
C8_FailedUploadNoEffect ==
    [][(out'.op = "upload" /\ FailsEarly(out'.file)) =>
          /\ out'.err # NoErr
          /\ out'.resp = Nil
          /\ table' = table
          /\ autoInc' = autoInc
          /\ cache' = cache]_vars

C8_Witness ==
    /\ out.op = "upload"
    /\ FailsEarly(out.file)
    /\ out.err[1] = "failed to parse Excel file"
    /\ table # {}
    /\ DOMAIN cache # {}

NoRepeat(seq) == \A a \in 1..Len(seq), b \in 1..Len(seq) : a # b => seq[a] # seq[b]

\* C9: an upload whose batch insert succeeds, with V valid rows of which M
\* carry an email already in the table and the others new, pairwise distinct
\* emails, reports skipped = M and inserted = V - M and adds exactly those
\* V - M rows to the table; with no invalid row and M = 0, total = V.
C9_Counts ==
    [][(out'.op = "upload" /\ out'.err = NoErr /\ out'.dbErr = NoErr) =>
          LET p     == ParseMemo[out'.file.Content]
              emps  == p.employees
              V     == Len(emps)
              dup   == {i \in 1..V : emps[i].Email \in Emails(table)}
              M     == Cardinality(dup)
              fresh == (1..V) \ dup
          IN  (\A a \in fresh, b \in fresh : a # b => emps[a].Email # emps[b].Email) =>
                /\ out'.resp.SkippedRecords = M
                /\ out'.resp.InsertedRecords = V - M
                /\ table \subseteq table'
                /\ Cardinality(table' \ table) = V - M
                /\ {[e EXCEPT !.ID = 0] : e \in table' \ table} = {emps[i] : i \in fresh}
                /\ (M = 0 /\ Len(p.validationErrors) = 0) =>
                      /\ out'.resp.TotalRecords = V
                      /\ out'.resp.InvalidRecords = 0]_vars

C9_Witness ==
    /\ out.op = "upload"
    /\ out.err = NoErr
    /\ out.dbErr = NoErr
    /\ out.file = F_annbo
    /\ out.resp.SkippedRecords = 1
    /\ out.resp.InsertedRecords = 1
    /\ Cardinality(table) = 2

\* C10: no email occurs twice in the duplicate-email list of an Upload Summary.
C10_DuplicateListUnique ==
    (out.op = "upload" /\ out.err = NoErr) => NoRepeat(out.resp.DuplicateEmails)

\* the emails of the rows that the batch insert skips, in row order: the
\* email of row k is in the table or is the email of an earlier row
RECURSIVE SkippedEmails(_, _, _)
SkippedEmails(emps, k, present) ==
    IF k > Len(emps) THEN <<>>
    ELSE IF emps[k].Email \in present
    THEN <<emps[k].Email>> \o SkippedEmails(emps, k + 1, present)
    ELSE SkippedEmails(emps, k + 1, present \cup {emps[k].Email})

\* C11: the duplicate-email list of an Upload Summary has at most 10 entries;
\* when more than 10 rows were skipped as duplicates it holds the emails of
\* the first 10 of them in row order, the message states how many were left
\* out, and skipped counts all of them.
C11_DuplicateListCapped ==
    [][(out'.op = "upload" /\ out'.err = NoErr) =>
          /\ Len(out'.resp.DuplicateEmails) <= 10
          /\ out'.dbErr = NoErr =>
                LET dups == SkippedEmails(ParseMemo[out'.file.Content].employees, 1,
                                          Emails(table))
                IN  /\ out'.resp.SkippedRecords = Len(dups)
                    /\ Len(dups) <= 10 => out'.resp.DuplicateEmails = dups
                    /\ Len(dups) > 10 =>
                          /\ out'.resp.DuplicateEmails = SubSeq(dups, 1, 10)
                          /\ out'.resp.Message[7] =
                                <<"examples", SubSeq(dups, 1, 10), "and more",
                                  Len(dups) - 10>>]_vars

C11_Witness ==
    /\ out.op = "upload"
    /\ out.err = NoErr
    /\ out.dbErr = NoErr
    /\ out.file = F_many
    /\ out.resp.SkippedRecords = 12
    /\ Len(out.resp.DuplicateEmails) = 10
    /\ out.resp.DuplicateEmails[1] # out.resp.DuplicateEmails[2]

\* the data rows of a sheet that are not empty, by their position in rows
DataRows(content) == {i \in 2..Len(content.rows) : ~isRowEmpty(content.rows[i])}

\* the data rows whose candidate record violates at least one constraint
InvalidRows(content) ==
    {i \in DataRows(content) :
        ValidateEmployeeData(mapRow(content.rows[i],
                                    validateAndMapHeaders(content.rows[1]).headerMap)) # <<>>}

\* C12..C14 read the rows of a sheet through this table, computed once per
\* file: its non-empty data rows, the invalid ones among them, and the
\* candidate record of each
SheetMemo ==
    [c \in {f.Content : f \in Files} |->
        IF /\ c.kind = "rows"
           /\ Len(c.rows) > 1
           /\ validateAndMapHeaders(c.rows[1]).err = NoErr
        THEN [dataRows    |-> DataRows(c),
              invalidRows |-> InvalidRows(c),
              candidate   |-> [r \in DataRows(c) |->
                                 mapRow(c.rows[r],
                                        validateAndMapHeaders(c.rows[1]).headerMap)]]
        ELSE [dataRows |-> {}, invalidRows |-> {}, candidate |-> <<>>]]

\* C12: in every Upload Summary total is the number of non-empty data rows
\* and invalid is the number of those rows with at least one violated
\* constraint, each row counted once.
C12_RowCounts ==
    (out.op = "upload" /\ out.err = NoErr) =>
        /\ out.resp.TotalRecords = Cardinality(SheetMemo[out.file.Content].dataRows)
        /\ out.resp.InvalidRecords = Cardinality(SheetMemo[out.file.Content].invalidRows)

\* the constraints a candidate record violates, as <<field, tag>>: a missing
\* required value is one violation; a present value violates each of its
\* length and syntax rules separately
FieldViolations(rule, v) ==
    {<<rule.Field, rule.tags[t][1]>> :
        t \in {n \in 1..Len(rule.tags) :
                  IF v = <<>> THEN rule.tags[n][1] = "required"
                  ELSE TagFails(rule.tags[n], v)}}

ViolatedConstraints(employee) ==
    UNION {FieldViolations(EmployeeRules[k], employee[EmployeeRules[k].Field]) :
              k \in 1..Len(EmployeeRules)}

\* C13: for every parsed file, each Row Validation Error is located at a
\* non-empty data row by "Row r - <Field>", r counting the header as row 1,
\* and a row whose candidate record violates k constraints has exactly k
\* errors.
C13_ErrorsPerRow ==
    (out.op = "upload" /\ out.err = NoErr) =>
        LET sheet == SheetMemo[out.file.Content]
            errs  == ParseMemo[out.file.Content].validationErrors
            at(r) == {n \in 1..Len(errs) : errs[n].Field[2] = r}
        IN  /\ \A n \in 1..Len(errs) :
                  /\ errs[n].Field[1] = "Row"
                  /\ errs[n].Field[2] \in sheet.dataRows
            /\ \A r \in sheet.dataRows :
                  Cardinality(at(r)) =
                      Cardinality(ViolatedConstraints(sheet.candidate[r]))

\* C14: every record an upload adds to the table is the candidate record of
\* a data row with no violated constraint, with that row's trimmed cells, and
\* satisfies every field constraint; rows with errors add nothing.
C14_OnlyValidRowsStored ==
    [][out'.op = "upload" =>
          \A e \in table' \ table :
              /\ ViolatedConstraints(e) = {}
              /\ \E r \in SheetMemo[out'.file.Content].dataRows
                                \ SheetMemo[out'.file.Content].invalidRows :
                    [e EXCEPT !.ID = 0] = SheetMemo[out'.file.Content].candidate[r]]_vars

C14_Witness ==
    /\ out.op = "upload"
    /\ out.file = F_mixed
    /\ out.resp # Nil
    /\ out.resp.InsertedRecords = 1
    /\ out.resp.InvalidRecords > 0
    /\ \E e \in table : e.Email = e_ann /\ e.FirstName = v_Ann /\ e.ID = 1

\* pairs of a file and the same file with blank rows among its data rows
BlankPairs == {<<F_annbo, F_annbo_blanks>>, <<F_mixed_noblank, F_mixed>>}

Counts(resp) ==
    <<resp.TotalRecords, resp.ValidRecords, resp.InvalidRecords,
      resp.InsertedRecords, resp.SkippedRecords>>

\* C15: an upload of a file and an upload, from the same state, of that file
\* with blank rows inserted among its data rows report the same total, valid,
\* invalid, inserted and skipped and leave the same table; structure
\* validation reports the same total for both.
C15_BlankRowsIgnored ==
    [][\A pr \in BlankPairs :
          /\ (out'.op = "upload" /\ out'.file = pr[1]) =>
                LET r == ProcessExcelFile(pr[2], table, autoInc, cache, out'.failAt, FALSE)
                IN  /\ r.err = out'.err
                    /\ Counts(r.resp) = Counts(out'.resp)
                    /\ r.table = table'
          /\ (out'.op = "validate" /\ out'.file = pr[1]) =>
                /\ StructureMemo[pr[2]].err = out'.err
                /\ StructureMemo[pr[2]].resp.TotalRecords = out'.resp.TotalRecords]_vars

C15_Witness ==
    /\ out.op = "validate"
    /\ out.file = F_annbo
    /\ out.err = NoErr
    /\ out.resp.TotalRecords = 2
    /\ {e.Email : e \in table} = {e_ann, e_bo}

\* the cleaned names of a header row
CleanNames(headerRow) == {TrimSpace(ToLower(headerRow[i])) : i \in 1..Len(headerRow)}

\* no two cells of the header row have the same cleaned name
DistinctNames(headerRow) ==
    \A a \in 1..Len(headerRow), b \in 1..Len(headerRow) :
        TrimSpace(ToLower(headerRow[a])) = TrimSpace(ToLower(headerRow[b])) => a = b

\* C16 as stated: header mapping succeeds for every header row that holds
\* first_name, last_name and email in any order, case and padding, and a
\* sheet parses to the same records and errors under every permutation of
\* its columns.
C16_AnyColumnOrder ==
    /\ out.op = "headers" =>
          (requiredHeaders \subseteq CleanNames(out.headerRow) => out.err = NoErr)
    /\ (out.op = "parse" /\ requiredHeaders \subseteq CleanNames(out.content.rows[1])) =>
              /\ out.result.err = NoErr
              /\ out.permuted = out.result

\* C16, amended: the same, for sheets in which no two header cells have
\* the same cleaned name.
C16_AnyColumnOrderDistinctNames ==
    /\ out.op = "headers" =>
          (requiredHeaders \subseteq CleanNames(out.headerRow) => out.err = NoErr)
    /\ (out.op = "parse" /\ requiredHeaders \subseteq CleanNames(out.content.rows[1])) =>
              /\ out.result.err = NoErr
              /\ DistinctNames(out.content.rows[1]) => out.permuted = out.result

C16_Witness ==
    /\ out.op = "parse"
    /\ out.content.rows[1] = hdrMixed
    /\ out.perm = <<4, 3, 2, 1>>
    /\ out.result.err = NoErr
    /\ Len(out.permuted.employees) = 1
    /\ Len(out.permuted.validationErrors) = 3

\* C17: header mapping fails exactly when a required header is absent from
\* the header row; the error then names every absent required header and
\* carries the header row as observed; absent optional headers alone never
\* make it fail.
C17_MissingHeadersAllNamed ==
    out.op = "headers" =>
        LET missing == requiredHeaders \ CleanNames(out.headerRow)
        IN  IF missing # {}
            THEN /\ out.err # NoErr
                 /\ out.headerMap = Nil
                 /\ {out.err[2][i] : i \in 1..Len(out.err[2])} = missing
                 /\ out.err[4] = out.headerRow
            ELSE out.err = NoErr

C17_Witness ==
    /\ out.op = "headers"
    /\ out.headerRow = <<raw_notes, h_last_name>>
    /\ out.err # NoErr
    /\ out.err[2] = <<h_first_name, h_email>>

\* C18: a structure validation leaves the table, its counter and the cache
\* as they were, and when it directly follows a structure validation of
\* the same file it returns the same preview or error.
C18_ValidateStructureReadOnly ==
    [][out'.op = "validate" =>
          /\ table' = table
          /\ autoInc' = autoInc
          /\ cache' = cache
          /\ (out.op = "validate" /\ out.file = out'.file) =>
                (out'.resp = out.resp /\ out'.err = out.err)]_vars

C18_Witness ==
    /\ out.op = "validate"
    /\ out.err = NoErr
    /\ out.resp.TotalRecords = 3
    /\ Cardinality(table) = 2
    /\ DOMAIN cache # {}

\* C19: an upload or a structure validation of a file whose first sheet has
\* at most one row returns an error and neither a summary nor a preview.
C19_EmptySheetRejected ==
    (/\ out.op \in {"upload", "validate"}
     /\ out.file.Content.kind = "rows"
     /\ Len(out.file.Content.rows) <= 1) =>
        (out.err # NoErr /\ out.resp = Nil)

\* C20: no two rows of the employees table have the same email, whatever
\* the interleaving of the database calls of concurrent creates, updates
\* and ingestions.
C20_EmailUnique ==
    \A a \in table, b \in table : a.Email = b.Email => a = b

\* two creates of the same new email both passed the email check; one
\* inserted the row and the index rejected the other
C20_Witness ==
    \E j \in DOMAIN task, n \in DOMAIN task :
        /\ task[j].op = "create" /\ task[n].op = "create"
        /\ task[j].pc = "done" /\ task[n].pc = "done"
        /\ task[j].employee.Email = task[n].employee.Email
        /\ task[j].err = NoErr
        /\ task[n].err = <<"failed to create employee", "Duplicate entry">>

C30_TotalIsValidPlusInvalid ==
    (out.op = "upload" /\ out.err = NoErr) =>
        out.resp.TotalRecords = out.resp.ValidRecords + out.resp.InvalidRecords

\* C25: when the storage call of a record after the first batchSize records
\* fails with a non-duplicate error, the first batchSize records of the file
\* remain in storage.
C25_EarlierBatchesRemain ==
    \A j \in DOMAIN task :
        (/\ task[j].op = "ingest" /\ task[j].pc = "done"
         /\ task[j].err # NoErr /\ task[j].failAt > batchSize) =>
            \A i \in 1..batchSize : task[j].rows[i].Email \in Emails(table)

\* C29: a CreateEmployee that failed and whose email a stored record has
\* returned the error "employee with email <email> already exists".
C29_DuplicateCreateConflict ==
    \A j \in DOMAIN task :
        (/\ task[j].op = "create" /\ task[j].pc = "done" /\ task[j].err # NoErr
         /\ task[j].employee.Email \in Emails(table)) =>
            task[j].err = <<"employee with email already exists">>

\* the rule of one field as the contract of ValidateEmployeeData states it
ObeysRule(employee, f) ==
    CASE f \in {"FirstName", "LastName"} ->
             Len(employee[f]) >= 2 /\ Len(employee[f]) <= 50
      [] f = "Email" ->
             employee.Email # <<>> /\ IsEmail(employee.Email) /\ Len(employee.Email) <= 255
      [] f = "Web" -> employee.Web = <<>> \/ IsURL(employee.Web)
      [] f = "CompanyName" -> Len(employee[f]) <= 100
      [] f = "Address" -> Len(employee[f]) <= 255
      [] f \in {"City", "County"} -> Len(employee[f]) <= 50
      [] f \in {"Postal", "Phone"} -> Len(employee[f]) <= 20
      [] OTHER -> TRUE

\* C23: ValidateEmployeeData returns no error exactly when every field obeys
\* its rule; the fields named by the errors it returns are exactly the
\* fields that break their rule.
C23_ValidationRules ==
    out.op = "validateData" =>
        /\ (out.errors = <<>>) <=>
              (\A f \in DOMAIN EmptyEmployee : ObeysRule(out.employee, f))
        /\ {out.errors[i].Field : i \in 1..Len(out.errors)}
              = {f \in DOMAIN EmptyEmployee : ~ObeysRule(out.employee, f)}

\* a record with a first name of 51 letters, a valid email of 256
\* characters, a web that is no URL and a phone of 21 characters, every
\* other field at its limit: exactly these four fields are reported
C23_Witness ==
    /\ out.op = "validateData"
    /\ Len(out.employee.FirstName) = 51
    /\ out.employee.Email = EmailOfLen(256)
    /\ out.employee.Web = <<"x", ".", "c", "o">>
    /\ Len(out.employee.Phone) = 21
    /\ Len(out.employee.Address) = 255
    /\ Len(out.employee.LastName) = 2
    /\ {out.errors[i].Field : i \in 1..Len(out.errors)}
          = {"FirstName", "Email", "Web", "Phone"}

\* C26: the lock of the job map is held only by a task that is inside
\* updateJobStatus, between its Lock and its Unlock, and that task can go on
\* to the Unlock by itself; a task that is about to run or is running
\* ProcessExcelFile does not hold it.  So whenever a poll or a submit finds
\* the lock taken, the holder releases it without any ingestion finishing.
C26_LockNotHeldAcrossPipeline ==
    /\ mu # Unlocked =>
          /\ mu \in DOMAIN task
          /\ task[mu].pc \in {"setRunning", "setFinal"}
          /\ task[mu].upd \in {"wroteStatus", "wroteResult"}
          /\ ENABLED (\E j \in {mu} : updateJobStatus_Result(j) \/ updateJobStatus_Error(j))
    /\ \A j \in DOMAIN task : task[j].pc = "process" => mu # j
    /\ (\E j \in DOMAIN task : task[j].pc # "done") => ENABLED Task

\* the ingestion of one job is between its two status updates while the
\* task of another job is inside updateJobStatus and holds the lock
C26_Witness ==
    \E j \in DOMAIN task, k \in DOMAIN task :
        /\ j # k
        /\ task[j].pc = "process"
        /\ task[j].file = F_ann
        /\ mu = k

\* the cache in which the read of key k is a miss when the call "get" is
\* among the failing ones
AsMiss(c, k, fail) ==
    IF "get" \in fail THEN [x \in DOMAIN c \ {k} |-> c[x]] ELSE c

\* C22: the result and error a service call returns and the table it leaves
\* are those of the same call, on the same table, in which no cache call
\* fails and each failed cache read is a miss.
C22_CacheFailureTolerated ==
    [][Len(task') = Len(task) + 1 =>
        CASE out'.op = "get" ->
                 LET r == GetEmployeeByID(out'.id, table,
                                          AsMiss(cache, RecordKey(out'.id), out'.fail), {})
                 IN  out'.result = r.result /\ out'.err = r.err /\ table' = table
          [] out'.op = "search" ->
                 LET k == ListKey(GenerateListCacheKey(out'.limit, out'.offset,
                                                       TrimSpace(out'.query)))
                     r == SearchEmployees(out'.query, out'.limit, out'.offset, table,
                                          AsMiss(cache, k, out'.fail), {})
                 IN  /\ out'.employees = r.employees /\ out'.total = r.total
                     /\ out'.err = r.err /\ table' = table
          [] out'.op = "create" ->
                 LET r == CreateEmployee(out'.employee, table, autoInc, cache, {})
                 IN  out'.result = r.result /\ out'.err = r.err /\ table' = r.table
          [] out'.op = "update" ->
                 LET r == UpdateEmployee(out'.id, out'.updateData, table, cache, {})
                 IN  out'.result = r.result /\ out'.err = r.err /\ table' = r.table
          [] out'.op = "delete" ->
                 LET r == DeleteEmployee(out'.id, table, cache, {})
                 IN  out'.err = r.err /\ table' = r.table
          [] out'.op = "upload" ->
                 LET r == ProcessExcelFile(out'.file, table, autoInc, cache,
                                           out'.failAt, FALSE)
                 IN  out'.resp = r.resp /\ out'.err = r.err /\ table' = r.table
    ]_vars

\* GetEmployeeByID returned the stored record although its cache read
\* failed while the cache held the record, and its cache write failed too
C22_Witness ==
    /\ out.op = "get"
    /\ out.fail = {"get", "set"}
    /\ RecordKey(out.id) \in DOMAIN cache
    /\ out.err = NoErr
    /\ out.result \in table

\* the call that has just returned is a create, update, delete or batch
\* insert that succeeded and none of its cache calls failed
WriteReturned(o) ==
    /\ o.op \in {"create", "update", "delete", "upload"}
    /\ o.err = NoErr
    /\ o.fail = {}
    /\ o.op = "upload" => o.dbErr = NoErr /\ o.resp.ValidRecords + o.resp.SkippedRecords > 0

\* the cache key of the record a create or an update has written
OwnKeys(o) == IF o.op \in {"create", "update"} THEN {RecordKey(o.result.ID)} ELSE {}

C27_ReadsSeeReturnedWrites ==
    [][/\ \A j \in DOMAIN task :
            (/\ task[j].op = "get" /\ task[j].pc = "cacheGet" /\ task'[j].pc = "done"
             /\ \A n \in DOMAIN task :
                    task[n].op \in {"update", "delete"} => task[n].pc = "done")
                => task'[j].employee \in table
       /\ (\A n \in DOMAIN task' : task'[n].pc = "done") =>
             \A key \in DOMAIN cache' : key.ns = "employee" => cache'[key] \in table'
    ]_vars

\* C28: a list or search read that reads the cache while no write is in
\* flight returns the page of the table as it is, and once every request has
\* returned each cached page is the page of the table.
C28_ListsSeeReturnedWrites ==
    [][/\ \A j \in DOMAIN task :
            (/\ task[j].op = "search" /\ task[j].pc = "cacheGet" /\ task'[j].pc = "done"
             /\ \A n \in DOMAIN task :
                    task[n].op \in {"create", "delete"} => task[n].pc = "done")
                => /\ task'[j].rows = PageOf(ReadKey(j), table).employees
                   /\ task'[j].k = PageOf(ReadKey(j), table).total
       /\ (\A n \in DOMAIN task' : task'[n].pc = "done") =>
             \A key \in DOMAIN cache' :
                 key.ns = "employee_list" =>
                     /\ cache'[key].Employees = PageOf(key, table').employees
                     /\ cache'[key].Total = PageOf(key, table').total
    ]_vars

====
